---- MODULE Spec2Model ----
(***************************************************************************)
(* Shell-command execution subsystem: the command gate (ShellTool's        *)
(* isCommandAllowed / validateToolParams / getCommandRoot), the            *)
(* confirmation step (shouldConfirmExecute and the resolution of the       *)
(* confirmation it returns), the sudo credential caches (ShellTool's and   *)
(* SudoContext's), and the two executors, ShellTool.execute and            *)
(* executeShellCommand, with the events of the process they spawn and the  *)
(* cancellation handler.                                                   *)
(*                                                                         *)
(* Strings of the program are sequences of one-character strings, so that  *)
(* trimming, splitting, prefix tests and basename extraction are computed  *)
(* the way the code computes them.                                         *)
(***************************************************************************)
EXTENDS Integers, Sequences, FiniteSets, TLC

(***************************************************************************)
(* Bounds of the model.                                                    *)
(***************************************************************************)
\* Longest command generated exhaustively over GateAlphabet.
MaxCmdLen == 3
\* Number of clock advances in one behaviour.
MaxTicks == 2
\* Date.now() when the session starts (never 0 in the program).
StartTime == 1000

(***************************************************************************)
(* String helpers (JavaScript String / RegExp methods used by the code).   *)
(***************************************************************************)
\* \s of the regular expressions, restricted to the characters the model uses.
IsSpace(c) == c \in {" ", "\t", "\n"}

RECURSIVE TrimStart(_)
TrimStart(s) ==
  IF s = <<>> THEN <<>>
  ELSE IF IsSpace(Head(s)) THEN TrimStart(Tail(s)) ELSE s

RECURSIVE TrimEnd(_)
TrimEnd(s) ==
  IF s = <<>> THEN <<>>
  ELSE IF IsSpace(s[Len(s)]) THEN TrimEnd(SubSeq(s, 1, Len(s) - 1)) ELSE s

\* String.prototype.trim
Trim(s) == TrimEnd(TrimStart(s))

\* String.prototype.startsWith
StartsWith(s, p) == Len(p) <= Len(s) /\ SubSeq(s, 1, Len(p)) = p

\* String.prototype.includes
Includes(s, p) == \E i \in 1..(Len(s) - Len(p) + 1) : SubSeq(s, i, i + Len(p) - 1) = p

\* s.replace(/[...]/g, '') : every character of the class is removed.
RemoveChars(s, class) == SelectSeq(s, LAMBDA c : c \notin class)

\* s.replace(/\s+/g, ' ') : every run of whitespace becomes one space.
RECURSIVE CollapseSpaces(_)
CollapseSpaces(s) ==
  IF s = <<>> THEN <<>>
  ELSE IF IsSpace(Head(s))
       THEN <<" ">> \o CollapseSpaces(TrimStart(s))
       ELSE <<Head(s)>> \o CollapseSpaces(Tail(s))

\* s.split(/[class]+/)[0] : the text before the first character of the class
\* (the empty string when s is empty or begins with such a character).
RECURSIVE FirstPiece(_, _)
FirstPiece(s, class) ==
  IF s = <<>> \/ Head(s) \in class THEN <<>>
  ELSE <<Head(s)>> \o FirstPiece(Tail(s), class)

\* s.split(/[class]/).pop() : the text after the last character of the class.
RECURSIVE LastPiece(_, _)
LastPiece(s, class) ==
  IF s = <<>> \/ s[Len(s)] \in class THEN <<>>
  ELSE LastPiece(SubSeq(s, 1, Len(s) - 1), class) \o <<s[Len(s)]>>

\* command.split(/&&|\|\||\||;/) : the alternatives are tried in this order at
\* each position, left to right; acc is the piece being read.
RECURSIVE SplitCommands(_, _)
SplitCommands(s, acc) ==
  IF s = <<>> THEN <<acc>>
  ELSE IF StartsWith(s, <<"&", "&">>) \/ StartsWith(s, <<"|", "|">>)
       THEN <<acc>> \o SplitCommands(SubSeq(s, 3, Len(s)), <<>>)
  ELSE IF Head(s) = "|" \/ Head(s) = ";"
       THEN <<acc>> \o SplitCommands(Tail(s), <<>>)
  ELSE SplitCommands(Tail(s), Append(acc, Head(s)))

Range(f) == {f[i] : i \in DOMAIN f}

(***************************************************************************)
(* Literals of the program.                                                *)
(***************************************************************************)
\* ShellTool.Name and ShellTool.name (the name of the class).
ToolName == "run_shell_command"
ClassName == "ShellTool"
SHELL_TOOL_NAMES == {ClassName, ToolName}

SUDO_CACHE_DURATION_MS == 15 * 60 * 1000

Sudo == <<"s", "u", "d", "o">>
SudoPrefix == <<"s", "u", "d", "o", " ">>

\* The backquote character (a one-character string like the others).
Backtick == "backquote"

\* An absent result (null), and the result of a call not made yet.
Null == "null"
Undefined == "undefined"

\* An optional field: <<>> when unset (undefined), <<v>> when set to v.
None == <<>>
Some(v) == <<v>>

(***************************************************************************)
(* CommandGate: getCommandRoot, isCommandAllowed, validateToolParams.      *)
(***************************************************************************)
GroupingChars == {"{", "}", "(", ")"}
RootSeparators == {" ", "\t", "\n", ";", "&", "|"}
PathSeparators == {"/", "\\"}

\* getCommandRoot without the basename step: the first token as written.
getCommandRoot_FirstToken(command) ==
  FirstPiece(RemoveChars(Trim(command), GroupingChars), RootSeparators)

getCommandRoot(command) ==
  LastPiece(FirstPiece(RemoveChars(Trim(command), GroupingChars), RootSeparators),
            PathSeparators)

normalize(cmd) == CollapseSpaces(Trim(cmd))

\* isPrefixedBy without the test of the character after the prefix.
isPrefixedBy_StartsWith(cmd, prefix) == StartsWith(cmd, prefix)

isPrefixedBy(cmd, prefix) ==
  /\ StartsWith(cmd, prefix)
  /\ (Len(cmd) = Len(prefix) \/ cmd[Len(prefix) + 1] = " ")

\* A policy entry is the text  tool , tool(arg)  or  tool(arg  (no closing
\* parenthesis): [tool, scope \in {"none", "parens", "open"}, arg].
\* extractCommands keeps the entries  name(arg)  of the shell tool.
extractCommands(tools) ==
  {normalize(t.arg) : t \in {e \in tools : e.tool \in SHELL_TOOL_NAMES /\ e.scope = "parens"}}

\* tools.includes(name) for one of the shell tool's names.
includesToolName(tools) ==
  \E e \in tools : e.tool \in SHELL_TOOL_NAMES /\ e.scope = "none"

commandsToValidate(command) ==
  LET parts == SplitCommands(command, <<>>)
  IN  [i \in DOMAIN parts |-> normalize(parts[i])]

\* hasSubstitution with the backquote test left out.
hasSubstitution_DollarOnly(command) == Includes(command, <<"$", "(">>)

hasSubstitution(command) == Includes(command, <<"$", "(">>) \/ Includes(command, <<Backtick>>)

isBlocked(cmd, blockedCommands) == \E blocked \in blockedCommands : isPrefixedBy(cmd, blocked)

isAllowed(cmd, allowedCommands) == \E allowed \in allowedCommands : isPrefixedBy(cmd, allowed)

\* isStrictAllowlist with the wildcard test left out.
isStrictAllowlist_NoWildcard(core) == extractCommands(core) # {}

isStrictAllowlist(core) == extractCommands(core) # {} /\ ~includesToolName(core)

\* isCommandAllowed testing the deny entries on the first sub-command only.
isCommandAllowed_DenyFirstOnly(command, core, exclude) ==
  IF hasSubstitution(command) THEN FALSE
  ELSE IF includesToolName(exclude) THEN FALSE
  ELSE LET blockedCommands == extractCommands(exclude)
           allowedCommands == extractCommands(core)
           cmds == commandsToValidate(command)
       IN  /\ ~isBlocked(cmds[1], blockedCommands)
           /\ \A i \in DOMAIN cmds :
                 isStrictAllowlist(core) => isAllowed(cmds[i], allowedCommands)

\* isCommandAllowed letting a wildcard allow override the outright exclusion.
isCommandAllowed_WildcardFirst(command, core, exclude) ==
  IF hasSubstitution(command) THEN FALSE
  ELSE IF includesToolName(exclude) /\ ~includesToolName(core) THEN FALSE
  ELSE LET blockedCommands == extractCommands(exclude)
           allowedCommands == extractCommands(core)
           cmds == commandsToValidate(command)
       IN  \A i \in DOMAIN cmds :
             /\ ~isBlocked(cmds[i], blockedCommands)
             /\ (isStrictAllowlist(core) => isAllowed(cmds[i], allowedCommands))

isCommandAllowed(command, core, exclude) ==
  IF hasSubstitution(command) THEN FALSE
  ELSE IF includesToolName(exclude) THEN FALSE
  ELSE LET blockedCommands == extractCommands(exclude)
           allowedCommands == extractCommands(core)
           cmds == commandsToValidate(command)
       IN  \A i \in DOMAIN cmds :
             /\ ~isBlocked(cmds[i], blockedCommands)
             /\ (isStrictAllowlist(core) => isAllowed(cmds[i], allowedCommands))

\* path.isAbsolute(directory): the text begins with a path separator.
isAbsolute(directory) == directory # <<>> /\ Head(directory) = "/"

\* The directories that exist under the project root (fs.existsSync).
ExistingDirs == {<<"s">>}

ErrNotAllowed == "Command is not allowed"
ErrEmpty == "Command cannot be empty."
ErrNoRoot == "Could not identify command root to obtain permission from user."
ErrAbsolute == "Directory cannot be absolute. Must be relative to the project root directory."
ErrNoDir == "Directory must exist."

\* A validation that does not ask for the command root.
validateToolParams_NoRootCheck(p, core, exclude) ==
  IF ~isCommandAllowed(p.command, core, exclude) THEN ErrNotAllowed
  ELSE IF Trim(p.command) = <<>> THEN ErrEmpty
  ELSE IF p.directory # <<>> /\ isAbsolute(p.directory) THEN ErrAbsolute
  ELSE IF p.directory # <<>> /\ p.directory \notin ExistingDirs THEN ErrNoDir
  ELSE Null

\* The error text, or Null when the parameters are valid.  Every request of
\* the model has a string command, so the schema validation passes.
validateToolParams(p, core, exclude) ==
  IF ~isCommandAllowed(p.command, core, exclude) THEN ErrNotAllowed
  ELSE IF Trim(p.command) = <<>> THEN ErrEmpty
  ELSE IF getCommandRoot(p.command) = <<>> THEN ErrNoRoot
  ELSE IF p.directory # <<>> /\ isAbsolute(p.directory) THEN ErrAbsolute
  ELSE IF p.directory # <<>> /\ p.directory \notin ExistingDirs THEN ErrNoDir
  ELSE Null

(***************************************************************************)
(* Inputs: policy entries, configurations, commands, requests.             *)
(***************************************************************************)
Entry(tool, scope, arg) == [tool |-> tool, scope |-> scope, arg |-> arg]

W_a == <<"a">>
W_b == <<"b">>
W_a_b == <<"a", " ", "b">>
W_ls == <<"l", "s">>
W_rm_rf_root == <<"r", "m", " ", "-", "r", "f", " ", "/">>
W_git_status == <<"g", "i", "t", " ", "s", "t", "a", "t", "u", "s">>
W_git_push == <<"g", "i", "t", " ", "p", "u", "s", "h">>
W_sudo_ls == <<"s", "u", "d", "o", " ", "l", "s">>

\* coreTools / excludeTools of the configurations the gate is checked under.
GateCoreTools ==
  { {},
    {Entry(ToolName, "none", <<>>)},
    {Entry(ToolName, "parens", W_a)},
    {Entry(ClassName, "parens", W_a), Entry(ClassName, "none", <<>>)},
    {Entry(ToolName, "parens", W_git_status), Entry(ToolName, "parens", <<" ", "a", " ", " ", "b">>)},
    {Entry("read_file", "none", <<>>), Entry(ToolName, "open", W_a)} }

GateExcludeTools ==
  { {},
    {Entry(ClassName, "none", <<>>)},
    {Entry(ToolName, "parens", W_a), Entry("read_file", "none", <<>>)},
    {Entry(ToolName, "parens", W_rm_rf_root), Entry(ClassName, "parens", W_b)} }

GateAlphabet == {"a", "b", " ", ";", "|", "&", "/", "$", "(", Backtick}

GeneratedCommands == UNION {[1..n -> GateAlphabet] : n \in 0..MaxCmdLen}

ExampleCommands ==
  { W_ls, W_git_status, W_git_push, W_sudo_ls,
    \* "rm -rf / ; ls"
    W_rm_rf_root \o <<" ", ";", " ">> \o W_ls,
    \* "ls && rm   -rf /"
    W_ls \o <<" ", "&", "&", " ", "r", "m", " ", " ", " ", "-", "r", "f", " ", "/">>,
    \* "a b||a"
    W_a_b \o <<"|", "|">> \o W_a,
    \* "rm -rf /home"
    W_rm_rf_root \o <<"h", "o", "m", "e">>,
    \* "ls & rm -rf /"
    W_ls \o <<" ", "&", " ">> \o W_rm_rf_root,
    \* "ls" newline "rm -rf /"
    W_ls \o <<"\n">> \o W_rm_rf_root,
    \* "  /usr/bin/ls -la | grep foo"
    <<" ", " ", "/", "u", "s", "r", "/", "b", "i", "n", "/", "l", "s", " ", "-", "l", "a",
      " ", "|", " ", "g", "r", "e", "p", " ", "f", "o", "o">>,
    \* "{ ls; }"
    <<"{", " ">> \o W_ls \o <<";", " ", "}">>,
    \* "(ls)"
    <<"(">> \o W_ls \o <<")">>,
    \* "C:\bin\ls\ta"
    <<"C", ":", "\\", "b", "i", "n", "\\">> \o W_ls \o <<"\t", "a">>,
    \* "git status $(a)"
    W_git_status \o <<" ", "$", "(", "a", ")">>,
    \* "a `b`"
    <<"a", " ", Backtick, "b", Backtick>>,
    \* "bin/"
    <<"b", "i", "n", "/">> }

Directories == {<<>>, <<"s">>, <<"m">>, <<"/", "s">>}

Request(command, directory) == [command |-> command, directory |-> directory]

\* The value of params after a step that made no call.
NoRequest == Request(<<>>, <<>>)

GateRequests ==
  {Request(c, <<>>) : c \in GeneratedCommands}
    \cup {Request(c, d) : c \in ExampleCommands, d \in Directories}

\* Configurations and requests of the session specification.
SessionConfigs ==
  { [core |-> {}, exclude |-> {}, win32 |-> FALSE],
    [core |-> {}, exclude |-> {}, win32 |-> TRUE],
    [core |-> {Entry(ToolName, "parens", W_ls)}, exclude |-> {}, win32 |-> FALSE],
    [core |-> {Entry(ToolName, "none", <<>>)},
     exclude |-> {Entry(ToolName, "parens", W_rm_rf_root)}, win32 |-> FALSE] }

W_bin_ls == <<"/", "b", "i", "n", "/", "l", "s">>
W_ls_rm == W_ls \o <<" ", ";", " ">> \o W_rm_rf_root
W_ls_subst == W_ls \o <<" ", "$", "(", "a", ")">>

SessionCommands == {W_ls, W_bin_ls, W_sudo_ls, W_ls_rm, W_ls_subst}

SessionRequests ==
  {Request(c, <<>>) : c \in SessionCommands} \cup {Request(W_ls, <<"m">>)}

\* The secrets a password prompt may deliver (the first is the empty string).
Passwords == {<<>>, <<"p", "w">>}

\* The clock advances by one millisecond or by just under the cache duration.
TickSteps == {1, SUDO_CACHE_DURATION_MS - 1}

ProceedOnce == "proceed_once"
ProceedAlways == "proceed_always"
Cancel == "cancel"
Outcomes == {ProceedOnce, ProceedAlways, Cancel}

(***************************************************************************)
(* State.                                                                  *)
(***************************************************************************)
VARIABLES
  coreTools,              \* config.getCoreTools()
  excludeTools,           \* config.getExcludeTools()
  isWindows,              \* os.platform() === 'win32'
  whitelist,              \* ShellTool.whitelist
  sudoPassword,           \* ShellTool.sudoPassword
  sudoPasswordTimestamp,  \* ShellTool.sudoPasswordTimestamp
  now,                    \* Date.now()
  ticks,                  \* clock advances so far
  op,                     \* the operation the last step performed
  params,                 \* the request of the call the last step made (the
                          \* input of the gate, initially)
  validationError,        \* what the last validateToolParams call returned
  confirmationDetails,    \* the confirmation shouldConfirmExecute returned
                          \* and whose onConfirm has not been called yet
  toolResult,             \* what the last execute call returned (or awaits)
  shell,                  \* the process of the last execute that spawned one
  tempFile,               \* the scratch file of the running execute exists
  abortListener,          \* abortHandler is registered on the abort signal
  confirmOutcome,         \* the outcome the last step passed to onConfirm of
                          \* an exec confirmation
  ctxPassword,            \* SudoProvider: password
  ctxTimestamp,           \* SudoProvider: timestamp
  callStatus,             \* status of the tool call the scheduler handles
  request,                \* the request of the invocation in flight
  userInput,              \* what the user did in the confirmation prompt
  executor,               \* which executor the invocation in flight runs in
  argv,                   \* the command string given to spawn after -c or /c
  stdinData,              \* what was written to the stdin of the child
  debugMessages,          \* the messages passed to onDebugMessage
  pid,                    \* shell.pid / child.pid is defined
  exited,                 \* the flag exited of the executor
  exitStatus,             \* the code or signal the process ended with
  job,                    \* the background job of the command
  signalAborted,          \* abortSignal.aborted
  abortPc,                \* where abortHandler stands
  signals,                \* the signals sent so far, in order
  stdout,                 \* the accumulated stdout text
  stderr,                 \* the accumulated stderr text
  output,                 \* the accumulated output of ShellTool.execute
  chunks,                 \* data events delivered so far
  error,                  \* the error recorded by the 'error' handler
  result,                 \* the result the invocation returned
  results,                \* how many results the invocation has produced
  written,                \* the bytes the process wrote, per stream
  pipe,                   \* the bytes no data event has delivered yet
  outputChunks,           \* outputChunks of executeShellCommand
  decoderRest,            \* the incomplete character each decoder holds
  streamToUi,             \* streamToUi of executeShellCommand
  sniffedBytes,           \* sniffedBytes of executeShellCommand
  lastUpdateTime,         \* lastUpdateTime of the throttle
  notices,                \* the live updates delivered so far, in order
  pgrepLines              \* the lines of the scratch file pgrep wrote

vars == <<coreTools, excludeTools, isWindows, whitelist, sudoPassword,
          sudoPasswordTimestamp, now, ticks, op, params, validationError,
          confirmationDetails, toolResult, shell, tempFile,
          abortListener, confirmOutcome, ctxPassword, ctxTimestamp,
          callStatus, request, userInput, executor, exitStatus, argv, stdinData,
          debugMessages, pid, exited, job, signalAborted, abortPc, signals, stdout,
          stderr, output, chunks, error, result, results, written, pipe,
          outputChunks, decoderRest, streamToUi, sniffedBytes, lastUpdateTime,
          notices, pgrepLines>>

configVars == <<coreTools, excludeTools, isWindows>>
cacheVars == <<sudoPassword, sudoPasswordTimestamp>>
execVars == <<toolResult, shell, tempFile, abortListener>>
ctxVars == <<ctxPassword, ctxTimestamp>>
schedVars == <<callStatus, request, userInput>>
spawnVars == <<executor, argv, stdinData, debugMessages, pid>>
procVars == <<exited, exitStatus, job, error>>
abortVars == <<signalAborted, abortPc, signals>>
dataVars == <<stdout, stderr, output, chunks>>
resultVars == <<result, results>>
outVars == <<written, pipe, outputChunks, decoderRest, streamToUi,
             sniffedBytes, lastUpdateTime, notices>>
runVars == <<ctxVars, schedVars, spawnVars, procVars, abortVars, dataVars,
             resultVars, outVars, pgrepLines>>

Details(type, command, rootCommand) ==
  [type |-> type, command |-> command, rootCommand |-> rootCommand]

\* shouldConfirmExecute returning false.
NoConfirmation == Details("false", <<>>, <<>>)

\* No onConfirm of an exec confirmation was called by the last step.
NoOutcome == "none"

\* The process of an execute call: none spawned, running, or exited.
NoShell == "none"
Running == "running"
Exited == "exited"

\* No invocation has been made: the SudoProvider holds no password, nothing
\* was spawned, written or returned.
InitRun ==
  /\ ctxPassword = None
  /\ ctxTimestamp = None
  /\ callStatus = "none"
  /\ request = NoRequest
  /\ userInput = "none"
  /\ executor = "none"
  /\ argv = <<>>
  /\ stdinData = <<>>
  /\ debugMessages = {}
  /\ pid = FALSE
  /\ exited = FALSE
  /\ exitStatus = None
  /\ job = "none"
  /\ signalAborted = FALSE
  /\ abortPc = "idle"
  /\ signals = <<>>
  /\ stdout = <<>>
  /\ stderr = <<>>
  /\ output = <<>>
  /\ chunks = 0
  /\ error = None
  /\ result = None
  /\ results = 0
  /\ written = [stdout |-> <<>>, stderr |-> <<>>]
  /\ pipe = [stdout |-> <<>>, stderr |-> <<>>]
  /\ outputChunks = <<>>
  /\ decoderRest = [stdout |-> <<>>, stderr |-> <<>>]
  /\ streamToUi = TRUE
  /\ sniffedBytes = 0
  /\ lastUpdateTime = 0
  /\ pgrepLines = <<>>
  /\ notices = <<>>

\* The state of a ShellTool right after construction, before any call.
InitSession ==
  /\ whitelist = {}
  /\ sudoPassword = None
  /\ sudoPasswordTimestamp = None
  /\ now = StartTime
  /\ ticks = 0
  /\ op = "none"
  /\ validationError = Undefined
  /\ confirmationDetails = NoConfirmation
  /\ toolResult = "none"
  /\ shell = NoShell
  /\ tempFile = FALSE
  /\ abortListener = FALSE
  /\ confirmOutcome = NoOutcome
  /\ InitRun

(***************************************************************************)
(* ConfirmationCoordinator: shouldConfirmExecute and its resolutions.      *)
(***************************************************************************)
\* this.sudoPassword && this.sudoPasswordTimestamp &&
\*   Date.now() - this.sudoPasswordTimestamp < this.SUDO_CACHE_DURATION_MS
\* isPasswordCached with the age compared by <= instead of <.
isPasswordCached_Inclusive ==
  /\ sudoPassword # None /\ sudoPassword[1] # <<>>
  /\ sudoPasswordTimestamp # None /\ sudoPasswordTimestamp[1] # 0
  /\ now - sudoPasswordTimestamp[1] <= SUDO_CACHE_DURATION_MS

isPasswordCached ==
  /\ sudoPassword # None /\ sudoPassword[1] # <<>>
  /\ sudoPasswordTimestamp # None /\ sudoPasswordTimestamp[1] # 0
  /\ now - sudoPasswordTimestamp[1] < SUDO_CACHE_DURATION_MS

\* params.command.trim().startsWith('sudo ')
isSudo(command) == StartsWith(Trim(command), SudoPrefix)

\* shouldConfirmExecute asking for the password before validating.
shouldConfirmExecute_PasswordFirst(p) ==
  IF isSudo(p.command) /\ ~isWindows /\ ~isPasswordCached
       THEN Details("password", <<>>, Sudo)
  ELSE IF validateToolParams(p, coreTools, excludeTools) # Null THEN NoConfirmation
  ELSE IF getCommandRoot(p.command) \in whitelist THEN NoConfirmation
  ELSE Details("exec", p.command, getCommandRoot(p.command))

\* shouldConfirmExecute returning at once for an elevation request whose
\* password is cached.
shouldConfirmExecute_CachedSkipsAll(p) ==
  IF validateToolParams(p, coreTools, excludeTools) # Null THEN NoConfirmation
  ELSE IF isSudo(p.command) /\ ~isWindows
       THEN IF isPasswordCached THEN NoConfirmation ELSE Details("password", <<>>, Sudo)
  ELSE IF getCommandRoot(p.command) \in whitelist THEN NoConfirmation
  ELSE Details("exec", p.command, getCommandRoot(p.command))

\* shouldConfirmExecute looking the whole command text up in the whitelist.
shouldConfirmExecute_WholeCommand(p) ==
  IF validateToolParams(p, coreTools, excludeTools) # Null THEN NoConfirmation
  ELSE IF isSudo(p.command) /\ ~isWindows /\ ~isPasswordCached
       THEN Details("password", <<>>, Sudo)
  ELSE IF p.command \in whitelist THEN NoConfirmation
  ELSE Details("exec", p.command, getCommandRoot(p.command))

shouldConfirmExecute(p) ==
  IF validateToolParams(p, coreTools, excludeTools) # Null THEN NoConfirmation
  ELSE IF isSudo(p.command) /\ ~isWindows /\ ~isPasswordCached
       THEN Details("password", <<>>, Sudo)
  ELSE IF getCommandRoot(p.command) \in whitelist THEN NoConfirmation
  ELSE Details("exec", p.command, getCommandRoot(p.command))

ShouldConfirmExecute(p) ==
  /\ confirmOutcome' = NoOutcome
  /\ UNCHANGED runVars
  /\ op' = "shouldConfirmExecute"
  /\ params' = p
  /\ confirmationDetails' = shouldConfirmExecute(p)
  /\ UNCHANGED <<configVars, whitelist, cacheVars, now, ticks, validationError, execVars>>

\* onConfirm of the password confirmation keeping the time of an earlier
\* entry.
OnConfirmPassword_KeepsTime(password) ==
  /\ confirmationDetails.type = "password"
  /\ sudoPassword' = Some(password)
  /\ sudoPasswordTimestamp' = IF sudoPasswordTimestamp = None
                              THEN Some(now) ELSE sudoPasswordTimestamp
  /\ confirmationDetails' = NoConfirmation
  /\ confirmOutcome' = NoOutcome
  /\ UNCHANGED runVars
  /\ op' = "onConfirmPassword"
  /\ params' = NoRequest
  /\ UNCHANGED <<configVars, whitelist, now, ticks, validationError, execVars>>

\* onConfirm of the password confirmation.
OnConfirmPassword(password) ==
  /\ confirmationDetails.type = "password"
  /\ sudoPassword' = Some(password)
  /\ sudoPasswordTimestamp' = Some(now)
  /\ confirmationDetails' = NoConfirmation
  /\ confirmOutcome' = NoOutcome
  /\ UNCHANGED runVars
  /\ op' = "onConfirmPassword"
  /\ params' = NoRequest
  /\ UNCHANGED <<configVars, whitelist, now, ticks, validationError, execVars>>

\* onConfirm of the exec confirmation inserting the root command on every
\* outcome that lets the invocation proceed.
OnConfirmExec_InsertsUnlessCancel(outcome) ==
  /\ confirmationDetails.type = "exec"
  /\ whitelist' = IF outcome # Cancel
                  THEN whitelist \cup {confirmationDetails.rootCommand}
                  ELSE whitelist
  /\ confirmationDetails' = NoConfirmation
  /\ confirmOutcome' = outcome
  /\ UNCHANGED runVars
  /\ op' = "onConfirmExec"
  /\ params' = NoRequest
  /\ UNCHANGED <<configVars, cacheVars, now, ticks, validationError, execVars>>

\* onConfirm of the exec confirmation.
OnConfirmExec(outcome) ==
  /\ confirmationDetails.type = "exec"
  /\ whitelist' = IF outcome = ProceedAlways
                  THEN whitelist \cup {confirmationDetails.rootCommand}
                  ELSE whitelist
  /\ confirmationDetails' = NoConfirmation
  /\ confirmOutcome' = outcome
  /\ UNCHANGED runVars
  /\ op' = "onConfirmExec"
  /\ params' = NoRequest
  /\ UNCHANGED <<configVars, cacheVars, now, ticks, validationError, execVars>>

(***************************************************************************)
(* ProcessExecutor: ShellTool.execute up to the wait for the exit event,   *)
(* and the exit of the process.                                            *)
(***************************************************************************)
Rejected == "Command rejected"
CancelledBeforeStart == "Command was cancelled by user before it could start."
SudoRejected == "Sudo command rejected: password has not been provided or has expired."
AwaitingExit == "awaiting exit"
Completed == "completed"

\* One execute call runs at a time: a call is made when no process of an
\* earlier call is still running.  aborted is abortSignal.aborted at the call.
Execute(p, aborted) ==
  /\ shell # Running
  /\ confirmOutcome' = NoOutcome
  /\ UNCHANGED runVars
  /\ op' = "execute"
  /\ params' = p
  /\ IF validateToolParams(p, coreTools, excludeTools) # Null
       THEN toolResult' = Rejected /\ UNCHANGED <<shell, tempFile, abortListener>>
     ELSE IF aborted
       THEN toolResult' = CancelledBeforeStart
            /\ UNCHANGED <<shell, tempFile, abortListener>>
     ELSE IF ~isWindows /\ isSudo(p.command) /\ ~isPasswordCached
       THEN toolResult' = SudoRejected /\ UNCHANGED <<shell, tempFile, abortListener>>
     ELSE /\ shell' = Running
          /\ abortListener' = TRUE
          /\ toolResult' = AwaitingExit
          /\ UNCHANGED tempFile
  /\ UNCHANGED <<configVars, whitelist, cacheVars, now, ticks, validationError,
                 confirmationDetails>>

\* The trailer of the wrapped command writes the scratch file (POSIX only).
PgrepTrailer ==
  /\ shell = Running
  /\ ~isWindows
  /\ ~tempFile
  /\ tempFile' = TRUE
  /\ confirmOutcome' = NoOutcome
  /\ UNCHANGED runVars
  /\ op' = "pgrep"
  /\ params' = NoRequest
  /\ UNCHANGED <<configVars, whitelist, cacheVars, now, ticks, validationError,
                 confirmationDetails, toolResult, shell, abortListener>>

\* The 'exit' event and what execute does once its wait is over: the abort
\* listener is removed, the scratch file is read and unlinked if it exists.
ShellExit ==
  /\ shell = Running
  /\ shell' = Exited
  /\ abortListener' = FALSE
  /\ tempFile' = FALSE
  /\ toolResult' = Completed
  /\ confirmOutcome' = NoOutcome
  /\ UNCHANGED runVars
  /\ op' = "exit"
  /\ params' = NoRequest
  /\ UNCHANGED <<configVars, whitelist, cacheVars, now, ticks, validationError,
                 confirmationDetails>>

\* Time passes.
Tick(d) ==
  /\ ticks < MaxTicks
  /\ ticks' = ticks + 1
  /\ now' = now + d
  /\ confirmOutcome' = NoOutcome
  /\ UNCHANGED runVars
  /\ op' = "tick"
  /\ params' = NoRequest
  /\ UNCHANGED <<configVars, whitelist, cacheVars, validationError,
                 confirmationDetails, execVars>>

(***************************************************************************)
(* The session: any sequence of calls on one ShellTool.                    *)
(***************************************************************************)
Init ==
  /\ \E c \in SessionConfigs :
       coreTools = c.core /\ excludeTools = c.exclude /\ isWindows = c.win32
  /\ params = NoRequest
  /\ InitSession

Next ==
  \/ \E p \in SessionRequests : ShouldConfirmExecute(p)
  \/ \E password \in Passwords : OnConfirmPassword(password)
  \/ \E outcome \in Outcomes : OnConfirmExec(outcome)
  \/ \E p \in SessionRequests, aborted \in BOOLEAN : Execute(p, aborted)
  \/ PgrepTrailer
  \/ ShellExit
  \/ \E d \in TickSteps : Tick(d)

Spec == Init /\ [][Next]_vars

(***************************************************************************)
(* The gate as a pure function: the configuration and the request are      *)
(* drawn at the start, and one call of validateToolParams,                 *)
(* shouldConfirmExecute or execute is applied to them.                     *)
(***************************************************************************)
InitGate ==
  /\ coreTools \in GateCoreTools
  /\ excludeTools \in GateExcludeTools
  /\ isWindows = FALSE
  /\ params \in GateRequests
  /\ InitSession

ValidateToolParams ==
  /\ op = "none"
  /\ confirmOutcome' = NoOutcome
  /\ UNCHANGED runVars
  /\ op' = "validateToolParams"
  /\ validationError' = validateToolParams(params, coreTools, excludeTools)
  /\ UNCHANGED <<configVars, whitelist, cacheVars, now, ticks, params,
                 confirmationDetails, execVars>>

NextGate ==
  \/ ValidateToolParams
  \/ op = "none" /\ ShouldConfirmExecute(params)
  \/ op = "none" /\ Execute(params, FALSE)

SpecGate == InitGate /\ [][NextGate]_vars

(***************************************************************************)
(* ProcessExecutor in detail: the two executors (ShellTool.execute and     *)
(* executeShellCommand of the user-shell path), the SudoProvider, the      *)
(* process they spawn, its events, and cancellation.                       *)
(***************************************************************************)
\* Data events delivered to one invocation.
MaxChunks == 2

\* String.prototype.endsWith
EndsWith(s, p) == Len(p) <= Len(s) /\ SubSeq(s, Len(s) - Len(p) + 1, Len(s)) = p

\* s.replace(pattern, replacement) with a string pattern: the first
\* occurrence only, s itself when there is none.
ReplaceFirst(s, pattern, replacement) ==
  IF ~Includes(s, pattern) THEN s
  ELSE LET at(i) == SubSeq(s, i, i + Len(pattern) - 1) = pattern
           first == CHOOSE i \in 1..Len(s) : at(i) /\ \A j \in 1..(i - 1) : ~at(j)
       IN SubSeq(s, 1, first - 1) \o replacement
            \o SubSeq(s, first + Len(pattern), Len(s))

\* password.replace(/'/g, "'\\''")
RECURSIVE escapePassword(_)
escapePassword(password) ==
  IF password = <<>> THEN <<>>
  ELSE (IF Head(password) = "'" THEN <<"'", "\\", "'", "'">> ELSE <<Head(password)>>)
         \o escapePassword(Tail(password))

\* The three executors: ShellTool.execute, and executeShellCommand in its two
\* versions (hooks/shellCommandProcessor.ts, and the one that pipes the
\* password with echo).
ShellToolExecutor == "ShellTool.execute"
StdinExecutor == "executeShellCommand (stdin)"
EchoExecutor == "executeShellCommand (echo)"
UserShellExecutors == {StdinExecutor, EchoExecutor}

\* The scratch file names (the random part is left out).
TempFilePath == "/tmp/shell_pgrep_.tmp"
PwdFilePath == "/tmp/shell_pwd_.tmp"

\* echo '<escaped password>' | <command with sudo replaced by sudo -S -->
sudoEchoCommand(command, password) ==
  <<"echo '">> \o escapePassword(password) \o <<"' | ">>
    \o ReplaceFirst(Trim(command), Sudo, <<"sudo -S --">>)

\* 'sudo -S ' + rawCommand.trim().substring(5)
sudoStdinCommand(rawCommand) ==
  <<"sudo -S ">> \o SubSeq(Trim(rawCommand), 6, Len(Trim(rawCommand)))

\* The command wrapped with the pgrep trailer (POSIX), as is on win32.
pgrepWrapped(commandToExecute, win32) ==
  IF win32 THEN commandToExecute
  ELSE <<"{ ">>
       \o (IF EndsWith(Trim(commandToExecute), <<"&">>)
           THEN commandToExecute ELSE commandToExecute \o <<";">>)
       \o <<" }; __code=$?; pgrep -g 0 >", TempFilePath, " 2>&1; exit $__code;">>

\* finalWrappedCommand of shellCommandProcessor.ts: the command is trimmed and
\* gets a ; unless it ends with ; or &.
pwdWrappedTrimmed(commandToExecute, win32) ==
  IF win32 THEN commandToExecute
  ELSE LET command == Trim(commandToExecute)
       IN <<"{ ">>
          \o (IF EndsWith(command, <<";">>) \/ EndsWith(command, <<"&">>)
              THEN command ELSE command \o <<";">>)
          \o <<" }; __code=$?; pwd > \"", PwdFilePath, "\"; exit $__code">>

\* finalWrappedCommand of the echo version: not trimmed, ; unless the trimmed
\* command ends with &.
pwdWrapped(commandToExecute, win32) ==
  IF win32 THEN commandToExecute
  ELSE <<"{ ">>
       \o (IF EndsWith(Trim(commandToExecute), <<"&">>)
           THEN commandToExecute ELSE commandToExecute \o <<";">>)
       \o <<" }; __code=$?; pwd > \"", PwdFilePath, "\"; exit $__code">>

\* The command string each executor hands to spawn for a command it runs with
\* the password it was given (None for a command that is no sudo command).
spawnCommand(exec, command, password, win32) ==
  LET elevated == ~win32 /\ isSudo(command)
  IN IF exec = ShellToolExecutor
       THEN pgrepWrapped(IF elevated THEN sudoEchoCommand(command, password[1])
                         ELSE command, win32)
     ELSE IF exec = StdinExecutor
       THEN pwdWrappedTrimmed(IF elevated THEN sudoStdinCommand(command)
                              ELSE command, win32)
     ELSE pwdWrapped(IF elevated THEN sudoEchoCommand(command, password[1])
                     ELSE command, win32)

\* What each executor writes to the stdin of the child: the password and a
\* newline in shellCommandProcessor.ts, nothing in the others (stdin is
\* 'ignore' there).
stdinWrite(exec, command, password, win32) ==
  IF exec = StdinExecutor /\ ~win32 /\ isSudo(command)
  THEN password[1] \o <<"\n">>
  ELSE <<>>

\* onDebugMessage(`Executing in ${cwd}: ${finalWrappedCommand}`) of
\* executeShellCommand; ShellTool.execute emits no debug message.
spawnDebugMessages(exec, command, password, win32) ==
  IF exec = ShellToolExecutor THEN {}
  ELSE {<<"Executing in ", "cwd", ": ">> \o spawnCommand(exec, command, password, win32)}

\* "sleep 5 &": a command that leaves a background job behind.
W_sleep_bg == <<"s", "l", "e", "e", "p", " ", "5", " ", "&">>

\* The requests of the invocations: a plain command, an elevation request, a
\* command with a background job, and one the gate rejects.
ExecRequests ==
  {Request(W_ls, <<>>), Request(W_sudo_ls, <<>>), Request(W_sleep_bg, <<>>),
   Request(W_ls_subst, <<>>)}

\* The command leaves a background job behind (it ends with &).
startsJob(command) == EndsWith(Trim(command), <<"&">>)

\* The elevation-failure phrases, each in two parts, and the chunks a data
\* event can deliver.
PhraseRequired == <<"sudo: a password", " is required">>
PhraseSorry == <<"sudo: sorry,", " try again">>
Hello == <<"hello\n">>
\* The data events of the model: text on stdout, a failure phrase on either
\* stream, and the two parts of a failure phrase in a chunk each.
DataEvents ==
  {<<"stdout", Hello>>, <<"stdout", PhraseRequired>>, <<"stderr", PhraseSorry>>,
   <<"stdout", <<PhraseRequired[1]>>>>, <<"stdout", <<PhraseRequired[2]>>>>}

\* str.includes('sudo: a password is required') ||
\* str.includes('sudo: sorry, try again')
hasSudoFailure(str) == Includes(str, PhraseRequired) \/ Includes(str, PhraseSorry)

\* The states of the process beyond NoShell, Running and Exited: the spawn
\* failed (no pid, an 'error' event follows), and the process has ended but
\* its 'exit' event has not been delivered yet.
SpawnFailed == "spawn failed"
Terminated == "terminated"

\* The message of the error a failed spawn emits.
ErrSpawn == <<"spawn bash ENOENT">>
\* new Error('Sudo password required.')
ErrSudoRequired == <<"Sudo password required.">>
\* The output of executeShellCommand called for sudo without a password.
SudoRequiredOutput ==
  <<"Error: sudo password required, but not provided or has expired.\n",
    "Run a sudo command through the AI first to cache the password.">>

\* The code or signal a process ended with.
ExitStatus(code, signal) == [code |-> code, signal |-> signal]

\* A result: of ShellTool.execute (kind tells which return statement made
\* it), or the ShellExecutionResult of executeShellCommand.
MkResult(kind, abortedFlag, out, code, signal, err) ==
  [kind |-> kind, aborted |-> abortedFlag, output |-> out, exitCode |-> code,
   signal |-> signal, error |-> err]

\* What every step of the detailed executor leaves alone or resets: the
\* observations of the gate and of the confirmation step.
Observe ==
  /\ op' = "run"
  /\ params' = NoRequest
  /\ confirmOutcome' = NoOutcome
  /\ UNCHANGED <<configVars, validationError, toolResult, outVars, pgrepLines>>

\* The clock stands still during a step of the prompt, of an executor or of
\* the process.
ClockFrame == UNCHANGED <<now, ticks>>

\* A new invocation starts without a process, events or output of an
\* earlier one.
FreshProcess ==
  /\ tempFile' = FALSE
  /\ exited' = FALSE
  /\ exitStatus' = None
  /\ job' = "none"
  /\ error' = None
  /\ abortPc' = "idle"
  /\ signals' = <<>>
  /\ stdout' = <<>>
  /\ stderr' = <<>>
  /\ output' = <<>>
  /\ chunks' = 0

\* Nothing is spawned and nothing is returned.
NothingSpawned ==
  /\ argv' = <<>>
  /\ stdinData' = <<>>
  /\ debugMessages' = {}
  /\ pid' = FALSE
  /\ shell' = NoShell
  /\ abortListener' = FALSE

\* No invocation has been made yet.
Idle == callStatus = "none"

(***************************************************************************)
(* SudoProvider (contexts/SudoContext.tsx).                                *)
(***************************************************************************)
\* getPassword without the age test.
ctxValid_NoExpiry ==
  /\ ctxPassword # None /\ ctxPassword[1] # <<>>
  /\ ctxTimestamp # None /\ ctxTimestamp[1] # 0

\* password && timestamp && Date.now() - timestamp < SUDO_CACHE_DURATION_MS
ctxValid ==
  /\ ctxPassword # None /\ ctxPassword[1] # <<>>
  /\ ctxTimestamp # None /\ ctxTimestamp[1] # 0
  /\ now - ctxTimestamp[1] < SUDO_CACHE_DURATION_MS

\* What getPassword returns.
getPassword == IF ctxValid THEN ctxPassword ELSE None

\* What getPassword leaves in the provider: an expired (non-empty) password
\* is cleared with its timestamp.
GetPasswordEffect ==
  IF ~ctxValid /\ ctxPassword # None /\ ctxPassword[1] # <<>>
  THEN ctxPassword' = None /\ ctxTimestamp' = None
  ELSE UNCHANGED ctxVars

\* setPassword(newPassword)
SetPassword(newPassword) ==
  /\ ctxPassword' = Some(newPassword)
  /\ ctxTimestamp' = Some(now)

(***************************************************************************)
(* The tool scheduler: it asks shouldConfirmExecute, waits for the         *)
(* confirmation to be resolved, and calls execute unless the outcome was   *)
(* Cancel.                                                                 *)
(***************************************************************************)
ScheduleToolCall(p) ==
  /\ Idle
  /\ request' = p
  /\ userInput' = "none"
  /\ confirmationDetails' = shouldConfirmExecute(p)
  /\ callStatus' = IF shouldConfirmExecute(p) = NoConfirmation
                   THEN "scheduled" ELSE "awaiting_approval"
  /\ FreshProcess
  /\ NothingSpawned
  /\ executor' = "none"
  /\ signalAborted' = FALSE
  /\ result' = None
  /\ results' = 0
  /\ Observe
  /\ ClockFrame
  /\ UNCHANGED <<whitelist, cacheVars, ctxVars>>

\* What the scheduler does with the outcome of a confirmation.
statusAfterConfirmation(outcome) ==
  IF outcome = Cancel THEN "cancelled" ELSE "scheduled"

(***************************************************************************)
(* ToolConfirmationMessage: the keys and selections of the user.           *)
(***************************************************************************)
\* useInput: escape resolves a confirmation that is no password prompt with
\* this outcome.
escapeOutcome_ProceedOnce == ProceedOnce

escapeOutcome == Cancel

\* onConfirm of the exec confirmation, called with outcome by the prompt.
ResolveExec(input, outcome) ==
  /\ callStatus = "awaiting_approval"
  /\ confirmationDetails.type = "exec"
  /\ userInput' = input
  /\ whitelist' = IF outcome = ProceedAlways
                  THEN whitelist \cup {confirmationDetails.rootCommand}
                  ELSE whitelist
  /\ confirmationDetails' = NoConfirmation
  /\ callStatus' = statusAfterConfirmation(outcome)
  /\ Observe
  /\ ClockFrame
  /\ UNCHANGED <<cacheVars, ctxVars, request, spawnVars, procVars,
                 abortVars, dataVars, resultVars, shell, tempFile, abortListener>>

\* The escape key.
PressEscape == ResolveExec("escape", escapeOutcome)

\* handleSelect(item): the radio selection.
HandleSelect(item) == ResolveExec(item, item)

\* handleSubmit(value) of the password prompt: the value goes to the
\* SudoProvider and to onConfirm of the password confirmation, which stores
\* it in the ShellTool with the time.
HandleSubmit(value) ==
  /\ callStatus = "awaiting_approval"
  /\ confirmationDetails.type = "password"
  /\ userInput' = "submit"
  /\ SetPassword(value)
  /\ sudoPassword' = Some(value)
  /\ sudoPasswordTimestamp' = Some(now)
  /\ confirmationDetails' = NoConfirmation
  /\ callStatus' = "scheduled"
  /\ Observe
  /\ ClockFrame
  /\ UNCHANGED <<whitelist, request, spawnVars, procVars, abortVars,
                 dataVars, resultVars, shell, tempFile, abortListener>>

(***************************************************************************)
(* The start of an invocation in each executor.                            *)
(***************************************************************************)
\* spawn: the process is created, or the OS fails to create it (then no pid
\* is set and an 'error' event follows); the handlers and the abort listener
\* are registered either way.
Spawn(exec, command, password) ==
  /\ argv' = spawnCommand(exec, command, password, isWindows)
  /\ stdinData' = stdinWrite(exec, command, password, isWindows)
  /\ debugMessages' = spawnDebugMessages(exec, command, password, isWindows)
  /\ \E created \in BOOLEAN :
       /\ pid' = created
       /\ shell' = IF created THEN Running ELSE SpawnFailed
  /\ abortListener' = TRUE
  /\ callStatus' = "executing"

\* A return before anything is spawned.
ReturnEarly(r) ==
  /\ result' = Some(r)
  /\ results' = results + 1
  /\ callStatus' = "done"
  /\ UNCHANGED <<argv, stdinData, debugMessages, pid, shell, abortListener>>

\* ShellTool.execute, called by the scheduler, up to its wait for 'exit'.
ToolExecute ==
  /\ callStatus = "scheduled"
  /\ executor' = ShellToolExecutor
  /\ IF validateToolParams(request, coreTools, excludeTools) # Null
       THEN ReturnEarly(MkResult("rejected", FALSE, <<>>, None, None, None))
     ELSE IF signalAborted
       THEN ReturnEarly(MkResult("cancelled before start", TRUE, <<>>, None, None, None))
     ELSE IF ~isWindows /\ isSudo(request.command) /\ ~isPasswordCached
       THEN ReturnEarly(MkResult("sudo rejected", FALSE, <<>>, None, None, None))
     ELSE Spawn(ShellToolExecutor, request.command, sudoPassword)
          /\ UNCHANGED resultVars
  /\ Observe
  /\ ClockFrame
  /\ UNCHANGED <<whitelist, cacheVars, ctxVars, confirmationDetails, request,
                 userInput, procVars, abortVars, dataVars, tempFile>>

\* handleShellCommand(rawQuery, abortSignal) of the user-shell path: it calls
\* executeShellCommand with getSudoPassword().  exec tells which version of
\* executeShellCommand runs, preAborted is abortSignal.aborted at the call.
HandleShellCommand(rawQuery, exec, preAborted) ==
  /\ Idle
  /\ request' = Request(rawQuery, <<>>)
  /\ userInput' = "none"
  /\ executor' = exec
  /\ signalAborted' = preAborted
  /\ FreshProcess
  /\ GetPasswordEffect
  /\ IF ~isWindows /\ isSudo(rawQuery) /\ (getPassword = None \/ getPassword[1] = <<>>)
       THEN /\ result' = Some(MkResult("resolved", FALSE, SudoRequiredOutput, Some(1),
                                       None, Some(ErrSudoRequired)))
            /\ results' = 1
            /\ callStatus' = "done"
            /\ NothingSpawned
       ELSE /\ Spawn(exec, rawQuery, getPassword)
            /\ result' = None
            /\ results' = 0
  /\ Observe
  /\ ClockFrame
  /\ UNCHANGED <<whitelist, cacheVars, confirmationDetails>>

(***************************************************************************)
(* The events of the process.                                              *)
(***************************************************************************)
\* The frame of an event that touches neither the scheduler nor the prompt.
EventFrame ==
  UNCHANGED <<whitelist, confirmationDetails, request, userInput,
              executor, argv, stdinData, debugMessages, pid>>

\* A 'data' event of stdout or stderr.  ShellTool.execute drops it once
\* exited is set; otherwise it clears the cached password when the chunk
\* holds a failure phrase, and appends the chunk to the stream and to output.
\* executeShellCommand appends the chunk to the stream.
Data(stream, chunk) ==
  /\ pid
  /\ shell \in {Running, Terminated, Exited}
  /\ chunks < MaxChunks
  /\ chunks' = chunks + 1
  /\ IF executor = ShellToolExecutor
       THEN IF exited
              THEN UNCHANGED <<cacheVars, stdout, stderr, output>>
              ELSE /\ IF hasSudoFailure(chunk)
                        THEN sudoPassword' = None /\ sudoPasswordTimestamp' = None
                        ELSE UNCHANGED cacheVars
                   /\ stdout' = IF stream = "stdout" THEN stdout \o chunk ELSE stdout
                   /\ stderr' = IF stream = "stderr" THEN stderr \o chunk ELSE stderr
                   /\ output' = output \o chunk
       ELSE /\ stdout' = IF stream = "stdout" THEN stdout \o chunk ELSE stdout
            /\ stderr' = IF stream = "stderr" THEN stderr \o chunk ELSE stderr
            /\ UNCHANGED <<cacheVars, output>>
  /\ Observe
  /\ ClockFrame
  /\ EventFrame
  /\ UNCHANGED <<ctxVars, callStatus, procVars, abortVars, resultVars, shell,
                 tempFile, abortListener>>

\* The command inside the braces is over and the trailer has run (POSIX): the
\* scratch file exists, and the job of a command that ends with & is alive.
CommandFinishes ==
  /\ shell = Running
  /\ ~isWindows
  /\ ~tempFile
  /\ tempFile' = TRUE
  /\ job' = IF startsJob(request.command) THEN "alive" ELSE job
  /\ Observe
  /\ ClockFrame
  /\ EventFrame
  /\ UNCHANGED <<cacheVars, ctxVars, callStatus, exited, exitStatus, error,
                 abortVars, dataVars, resultVars, shell, abortListener>>

\* The exit codes of the model.
ExitCodes == {0, 1}

\* The shell process ends with exit $__code (after the trailer on POSIX).
ProcessExits(code) ==
  /\ shell = Running
  /\ isWindows \/ tempFile
  /\ shell' = Terminated
  /\ exitStatus' = Some(ExitStatus(Some(code), None))
  /\ Observe
  /\ ClockFrame
  /\ EventFrame
  /\ UNCHANGED <<cacheVars, ctxVars, callStatus, exited, job, error, abortVars,
                 dataVars, resultVars, tempFile, abortListener>>

\* A signal record: what was sent, to the process group or to the direct
\* child, and whether the call succeeded.
Signal(name, target, ok) == [signal |-> name, target |-> target, ok |-> ok]

\* A signal of this name has reached the shell process.
Delivered(name) ==
  \E i \in DOMAIN signals : signals[i].signal = name /\ signals[i].ok

\* The shell process is ended by a signal that reached it (SIGTERM can be
\* ignored, so this step need not happen for it), or by taskkill.
Killed(name) ==
  /\ shell = Running
  /\ Delivered(name)
  /\ shell' = Terminated
  /\ exitStatus' = IF name = "taskkill"
                   THEN Some(ExitStatus(Some(1), None))
                   ELSE Some(ExitStatus(None, Some(name)))
  /\ Observe
  /\ ClockFrame
  /\ EventFrame
  /\ UNCHANGED <<cacheVars, ctxVars, callStatus, exited, job, error, abortVars,
                 dataVars, resultVars, tempFile, abortListener>>

\* The background job ends by itself.
JobFinishes ==
  /\ job = "alive"
  /\ job' = "dead"
  /\ Observe
  /\ ClockFrame
  /\ EventFrame
  /\ UNCHANGED <<cacheVars, ctxVars, callStatus, exited, exitStatus, error,
                 abortVars, dataVars, resultVars, shell, tempFile, abortListener>>

\* The 'error' event of a failed spawn: the handler records the error
\* (ShellTool.execute replaces the wrapped command by params.command in its
\* message).  No 'exit' event follows a failed spawn.
ErrorEvent ==
  /\ shell = SpawnFailed
  /\ error = None
  /\ error' = Some(IF executor = ShellToolExecutor
                   THEN ReplaceFirst(ErrSpawn, argv, request.command)
                   ELSE ErrSpawn)
  /\ Observe
  /\ ClockFrame
  /\ EventFrame
  /\ UNCHANGED <<cacheVars, ctxVars, callStatus, exited, exitStatus, job,
                 abortVars, dataVars, resultVars, shell, tempFile, abortListener>>

\* stdout + (stderr ? `\n${stderr}` : '')
combinedOutput == stdout \o (IF stderr # <<>> THEN <<"\n">> \o stderr ELSE <<>>)

\* The result ShellTool.execute returns after 'exit'.
toolResultAfterExit ==
  IF signalAborted
  THEN MkResult("cancelled", TRUE, output, None, None, None)
  ELSE MkResult("completed", FALSE, output, exitStatus[1].code,
                exitStatus[1].signal, error)

\* The ShellExecutionResult executeShellCommand resolves with on 'exit'.
shellExecutionResult ==
  MkResult("resolved", signalAborted, combinedOutput, exitStatus[1].code,
           exitStatus[1].signal, error)

\* An 'exit' event after which the scratch file is left where it is.
ExitEvent_NoUnlink ==
  /\ shell = Terminated
  /\ shell' = Exited
  /\ exited' = TRUE
  /\ abortListener' = FALSE
  /\ UNCHANGED tempFile
  /\ result' = Some(IF executor = ShellToolExecutor
                    THEN toolResultAfterExit ELSE shellExecutionResult)
  /\ results' = results + 1
  /\ callStatus' = "done"
  /\ IF executor = EchoExecutor /\ Includes(combinedOutput, PhraseSorry)
       THEN SetPassword(<<>>)
       ELSE UNCHANGED ctxVars
  /\ Observe
  /\ ClockFrame
  /\ EventFrame
  /\ UNCHANGED <<cacheVars, exitStatus, job, error, abortVars, dataVars>>

\* An 'exit' event after which the abort listener stays registered.
ExitEvent_KeepsListener ==
  /\ shell = Terminated
  /\ shell' = Exited
  /\ exited' = TRUE
  /\ UNCHANGED abortListener
  /\ tempFile' = FALSE
  /\ result' = Some(IF executor = ShellToolExecutor
                    THEN toolResultAfterExit ELSE shellExecutionResult)
  /\ results' = results + 1
  /\ callStatus' = "done"
  /\ IF executor = EchoExecutor /\ Includes(combinedOutput, PhraseSorry)
       THEN SetPassword(<<>>)
       ELSE UNCHANGED ctxVars
  /\ Observe
  /\ ClockFrame
  /\ EventFrame
  /\ UNCHANGED <<cacheVars, exitStatus, job, error, abortVars, dataVars>>

\* The 'exit' event.  ShellTool.execute: exitHandler sets exited, the wait is
\* over, the abort listener is removed, the scratch file is read and unlinked
\* if it exists, the result is returned.  executeShellCommand: exited is set,
\* the abort listener is removed, the pwd file is read and unlinked if it
\* exists, the promise is resolved; the version of handleShellCommand that
\* comes with the echo executor then calls setSudoPassword('') when the
\* output holds 'sudo: sorry, try again'.
ExitEvent ==
  /\ shell = Terminated
  /\ shell' = Exited
  /\ exited' = TRUE
  /\ abortListener' = FALSE
  /\ tempFile' = FALSE
  /\ result' = Some(IF executor = ShellToolExecutor
                    THEN toolResultAfterExit ELSE shellExecutionResult)
  /\ results' = results + 1
  /\ callStatus' = "done"
  /\ IF executor = EchoExecutor /\ Includes(combinedOutput, PhraseSorry)
       THEN SetPassword(<<>>)
       ELSE UNCHANGED ctxVars
  /\ Observe
  /\ ClockFrame
  /\ EventFrame
  /\ UNCHANGED <<cacheVars, exitStatus, job, error, abortVars, dataVars>>

(***************************************************************************)
(* Cancellation: the abort signal and abortHandler.                        *)
(***************************************************************************)
\* A signal sent to the process group ends the background job.
jobAfterGroupSignal == IF job = "alive" THEN "dead" ELSE job

\* A group signal whose failure is swallowed.
GroupSignalOrFallback_NoFallback(name) ==
  \E ok \in BOOLEAN :
    IF ok
    THEN /\ signals' = Append(signals, Signal(name, "group", TRUE))
         /\ job' = jobAfterGroupSignal
    ELSE /\ signals' = Append(signals, Signal(name, "group", FALSE))
         /\ UNCHANGED job

\* process.kill(-pid, name) inside the try block: it succeeds, or it throws
\* and the catch block kills the direct child with SIGKILL.
GroupSignalOrFallback(name) ==
  \E ok \in BOOLEAN :
    IF ok
    THEN /\ signals' = Append(signals, Signal(name, "group", TRUE))
         /\ job' = jobAfterGroupSignal
    ELSE /\ signals' = signals \o <<Signal(name, "group", FALSE),
                                    Signal("SIGKILL", "child", TRUE)>>
         /\ UNCHANGED job

\* The caller fires the cancellation trigger.  When abortHandler is
\* registered it runs up to its await: nothing if there is no pid or exited
\* is set; taskkill on win32; otherwise SIGTERM to the group and the start of
\* the grace window (or the fallback when the group signal throws).
\* executeShellCommand registers the handler with once: true.
Abort ==
  /\ callStatus # "none"
  /\ ~signalAborted
  /\ signalAborted' = TRUE
  /\ IF abortListener /\ pid /\ ~exited
       THEN IF isWindows
              THEN /\ signals' = Append(signals, Signal("taskkill", "tree", TRUE))
                   /\ abortPc' = "done"
                   /\ UNCHANGED job
              ELSE /\ GroupSignalOrFallback("SIGTERM")
                   /\ abortPc' = IF signals'[Len(signals')].target = "group"
                                 THEN "grace" ELSE "done"
       ELSE /\ abortPc' = IF abortListener THEN "done" ELSE abortPc
            /\ UNCHANGED <<signals, job>>
  /\ abortListener' = IF executor = ShellToolExecutor THEN abortListener ELSE FALSE
  /\ Observe
  /\ ClockFrame
  /\ EventFrame
  /\ UNCHANGED <<cacheVars, ctxVars, callStatus, exited, exitStatus, error,
                 dataVars, resultVars, shell, tempFile>>

\* A grace window that ends without the forceful signal.
GraceElapsed_NoKill ==
  /\ abortPc = "grace"
  /\ abortPc' = "done"
  /\ UNCHANGED <<signals, job>>
  /\ Observe
  /\ ClockFrame
  /\ EventFrame
  /\ UNCHANGED <<cacheVars, ctxVars, callStatus, exited, exitStatus, error,
                 signalAborted, dataVars, resultVars, shell, tempFile,
                 abortListener>>

\* A timer of the grace window that does not look at exited.
GraceElapsed_KillsAfterExit ==
  /\ abortPc = "grace"
  /\ abortPc' = "done"
  /\ IF pid
       THEN GroupSignalOrFallback("SIGKILL")
       ELSE UNCHANGED <<signals, job>>
  /\ Observe
  /\ ClockFrame
  /\ EventFrame
  /\ UNCHANGED <<cacheVars, ctxVars, callStatus, exited, exitStatus, error,
                 signalAborted, dataVars, resultVars, shell, tempFile,
                 abortListener>>

\* The timer of the grace window fires: SIGKILL to the group if exited is
\* still unset (or the fallback when the group signal throws).
GraceElapsed ==
  /\ abortPc = "grace"
  /\ abortPc' = "done"
  /\ IF pid /\ ~exited
       THEN GroupSignalOrFallback("SIGKILL")
       ELSE UNCHANGED <<signals, job>>
  /\ Observe
  /\ ClockFrame
  /\ EventFrame
  /\ UNCHANGED <<cacheVars, ctxVars, callStatus, exited, exitStatus, error,
                 signalAborted, dataVars, resultVars, shell, tempFile,
                 abortListener>>

(***************************************************************************)
(* The executors at work: invocations through the scheduler and through    *)
(* the user-shell path, one at a time, on either platform.                 *)
(***************************************************************************)
\* The clock advance of this specification: one step leaves a password
\* stored before it valid, two steps make it expire.
ExecTickSteps == {SUDO_CACHE_DURATION_MS - 1}

\* Time passes.  The executors read the clock only in the call that starts
\* them, so the clock is advanced before that call and not after it.
TickBeforeRun(d) ==
  /\ callStatus \in {"none", "awaiting_approval", "scheduled"}
  /\ ticks < MaxTicks
  /\ ticks' = ticks + 1
  /\ now' = now + d
  /\ Observe
  /\ UNCHANGED <<whitelist, cacheVars, confirmationDetails, execVars, runVars>>

\* The password prompt of an earlier invocation of the session is answered
\* (handleSubmit) when the session begins: both caches hold the value with
\* the time.
EarlierPrompt(value) ==
  /\ Idle
  /\ ticks = 0
  /\ sudoPassword = None
  /\ ctxPassword = None
  /\ SetPassword(value)
  /\ sudoPassword' = Some(value)
  /\ sudoPasswordTimestamp' = Some(now)
  /\ Observe
  /\ ClockFrame
  /\ UNCHANGED <<whitelist, confirmationDetails, schedVars, spawnVars, procVars,
                 abortVars, dataVars, resultVars, shell, tempFile, abortListener>>

\* One invocation, through the scheduler or through the user-shell path, on
\* either platform, with every command allowed by the policy.
InitExec ==
  /\ coreTools = {}
  /\ excludeTools = {}
  /\ isWindows \in BOOLEAN
  /\ params = NoRequest
  /\ InitSession

NextExec ==
  \/ \E value \in Passwords : EarlierPrompt(value)
  \/ \E p \in ExecRequests : ScheduleToolCall(p)
  \/ PressEscape
  \/ \E item \in Outcomes : HandleSelect(item)
  \/ \E value \in Passwords : HandleSubmit(value)
  \/ ToolExecute
  \/ \E p \in ExecRequests, exec \in UserShellExecutors, preAborted \in BOOLEAN :
       HandleShellCommand(p.command, exec, preAborted)
  \/ \E e \in DataEvents : Data(e[1], e[2])
  \/ CommandFinishes
  \/ \E code \in ExitCodes : ProcessExits(code)
  \/ \E name \in {"SIGTERM", "SIGKILL", "taskkill"} : Killed(name)
  \/ JobFinishes
  \/ ErrorEvent
  \/ ExitEvent
  \/ Abort
  \/ GraceElapsed
  \/ \E d \in ExecTickSteps : TickBeforeRun(d)

SpecExec == InitExec /\ [][NextExec]_vars

\* The scheduling the executors rely on: the event loop delivers the 'exit'
\* event of a process that has ended and fires the timer of the grace
\* window, and the system ends a process that SIGKILL or taskkill has
\* reached.  Nothing makes a process end by itself or obey SIGTERM.
FairSpecExec ==
  /\ SpecExec
  /\ WF_vars(ExitEvent)
  /\ WF_vars(GraceElapsed)
  /\ WF_vars(Killed("SIGKILL"))
  /\ WF_vars(Killed("taskkill"))

(***************************************************************************)
(* Invocations that share the cache: while the process of one tool call    *)
(* runs, the password prompt of another invocation of the session may be   *)
(* answered.                                                               *)
(***************************************************************************)
\* The secret typed at the prompt of the other invocation.
SecondSecret == <<"p", "2">>

\* handleSubmit(value) of the password prompt of another invocation while
\* the process of this one runs: the value goes to the SudoProvider and to
\* the ShellTool, with the time.
ConcurrentSubmit(value) ==
  /\ callStatus = "executing"
  /\ SetPassword(value)
  /\ sudoPassword' = Some(value)
  /\ sudoPasswordTimestamp' = Some(now)
  /\ Observe
  /\ ClockFrame
  /\ UNCHANGED <<whitelist, confirmationDetails, schedVars, spawnVars, procVars,
                 abortVars, dataVars, resultVars, shell, tempFile, abortListener>>

NextShared ==
  \/ \E p \in ExecRequests : ScheduleToolCall(p)
  \/ \E item \in Outcomes : HandleSelect(item)
  \/ \E value \in Passwords : HandleSubmit(value)
  \/ ToolExecute
  \/ \E e \in DataEvents : Data(e[1], e[2])
  \/ CommandFinishes
  \/ \E code \in ExitCodes : ProcessExits(code)
  \/ ExitEvent
  \/ ConcurrentSubmit(SecondSecret)

SpecShared == InitExec /\ [][NextShared]_vars

(***************************************************************************)
(* OutputAggregator: the bytes of the process, the decoders, stripAnsi,    *)
(* the binary sniffer and the throttled live updates.                      *)
(*                                                                         *)
(* A byte is one of the tokens of OutBytes: "a" is a byte of plain text,   *)
(* "C3" "A9" are the two bytes of U+00E9, "ESC" "[" "m" spell a control    *)
(* sequence, "NUL" is the zero byte.  Decoded text is a sequence of        *)
(* characters: "a", "E9" (U+00E9), "FFFD" (the replacement character),     *)
(* "ESC", "[", "m" and "NUL".                                              *)
(***************************************************************************)
\* Longest chunk of one data event, in bytes.
MaxChunkLen == 2
\* Clock advances during one run of the output handlers.
MaxOutTicks == 4

OUTPUT_UPDATE_INTERVAL_MS == 1000
MAX_SNIFF_SIZE == 4096
\* outputChunks.slice(0, 20)
SNIFF_CHUNKS == 20

\* StringDecoder('utf8').write: the text of the complete characters of
\* rest \o bytes, and the bytes of an incomplete character kept for the next
\* call.  A lead byte that is not followed by its continuation byte and a
\* continuation byte without a lead byte become U+FFFD.
RECURSIVE decoderWrite(_, _)
decoderWrite(rest, bytes) ==
  IF bytes = <<>> THEN [text |-> <<>>, rest |-> rest]
  ELSE LET b == Head(bytes)
           after(t, r) == LET d == decoderWrite(r, Tail(bytes))
                          IN  [text |-> t \o d.text, rest |-> d.rest]
       IN  IF rest # <<>>
             THEN IF b = "A9" THEN after(<<"E9">>, <<>>)
                  ELSE LET d == decoderWrite(<<>>, bytes)
                       IN  [text |-> <<"FFFD">> \o d.text, rest |-> d.rest]
             ELSE IF b = "C3" THEN after(<<>>, <<"C3">>)
                  ELSE IF b = "A9" THEN after(<<"FFFD">>, <<>>)
                  ELSE after(<<b>>, <<>>)

\* StringDecoder.end(): an incomplete character becomes U+FFFD.
decoderEnd(rest) == IF rest # <<>> THEN <<"FFFD">> ELSE <<>>

\* Buffer.toString(): the chunk decoded by itself.
toString(bytes) ==
  LET d == decoderWrite(<<>>, bytes) IN d.text \o decoderEnd(d.rest)

\* Length of the run of "[" that starts at position i of the text.
RECURSIVE bracketRun(_, _)
bracketRun(text, i) ==
  IF i <= Len(text) /\ text[i] = "[" THEN 1 + bracketRun(text, i + 1) ELSE 0

\* stripAnsi: every control sequence that lies whole in the text is removed.
\* Over the characters of the model a control sequence is ESC, any number of
\* "[", and the final character "m".
RECURSIVE stripAnsi(_)
stripAnsi(text) ==
  IF text = <<>> THEN <<>>
  ELSE IF /\ Head(text) = "ESC"
          /\ 2 + bracketRun(text, 2) <= Len(text)
          /\ text[2 + bracketRun(text, 2)] = "m"
         THEN stripAnsi(SubSeq(text, 3 + bracketRun(text, 2), Len(text)))
         ELSE <<Head(text)>> \o stripAnsi(Tail(text))

\* Buffer.concat
RECURSIVE concat(_)
concat(buffers) ==
  IF buffers = <<>> THEN <<>> ELSE Head(buffers) \o concat(Tail(buffers))

\* isBinary of textUtils: the buffer holds a zero byte.
isBinary(buffer) == \E i \in DOMAIN buffer : buffer[i] = "NUL"

\* The byte sequences a process writes on stdout (on stderr: nothing, or
\* one byte of text).
StdoutStreams ==
  {<<"a", "C3", "A9">>, <<"ESC", "[", "m", "a">>, <<"NUL", "a", "a">>,
   <<"a", "a", "a">>}

\* A live update that reached updateOutput / setPendingHistoryItem.
Notice(time, kind, body) == [time |-> time, kind |-> kind, body |-> body]

\* stdout + (stderr ? `\n${stderr}` : '')
combine(out, err) == out \o (IF err # <<>> THEN <<"\n">> \o err ELSE <<>>)

\* Date.now() - lastUpdateTime > OUTPUT_UPDATE_INTERVAL_MS, with >= instead.
throttleOpen_Inclusive(last) == now - last >= OUTPUT_UPDATE_INTERVAL_MS

\* Date.now() - lastUpdateTime > OUTPUT_UPDATE_INTERVAL_MS
throttleOpen(last) == now - last > OUTPUT_UPDATE_INTERVAL_MS

\* The throttled callback called with each candidate in turn: a candidate is
\* delivered, and lastUpdateTime set, when the throttle is open.
RECURSIVE throttled(_, _, _)
throttled(delivered, last, candidates) ==
  IF candidates = <<>> THEN [notices |-> delivered, lastUpdateTime |-> last]
  ELSE IF throttleOpen(last)
         THEN throttled(Append(delivered,
                               Notice(now, Head(candidates).kind,
                                      Head(candidates).body)),
                        now, Tail(candidates))
         ELSE throttled(delivered, last, Tail(candidates))

\* What a step of the output handlers leaves alone.
OutFrame ==
  /\ op' = "output"
  /\ UNCHANGED <<configVars, whitelist, cacheVars, params, validationError,
                 confirmationDetails, execVars, confirmOutcome, ctxVars,
                 schedVars, argv, stdinData, debugMessages, pid, job, error,
                 abortVars, chunks, pgrepLines>>

\* An executor has spawned a process that writes out on stdout and err on
\* stderr; the bytes wait in the pipes.  ShellTool.execute starts its
\* throttle at Date.now(), handleShellCommand at 0.
StartRun(exec, out, err) ==
  /\ executor = "none"
  /\ executor' = exec
  /\ written' = [stdout |-> out, stderr |-> err]
  /\ pipe' = [stdout |-> out, stderr |-> err]
  /\ lastUpdateTime' = IF exec = ShellToolExecutor THEN now ELSE 0
  /\ OutFrame
  /\ UNCHANGED <<now, ticks, exited, exitStatus, stdout, stderr, output,
                 result, results, outputChunks, decoderRest, streamToUi,
                 sniffedBytes, notices>>

\* The 'data' handlers of ShellTool.execute with a chunk of stream: nothing
\* once exited is set; otherwise the chunk is decoded by itself, stripped,
\* added to the text of the stream and to output, and appendOutput passes
\* output to updateOutput when the throttle is open.
shellToolData(stream, chunk) ==
  IF exited
  THEN UNCHANGED <<stdout, stderr, output, notices, lastUpdateTime>>
  ELSE LET str == stripAnsi(toString(chunk))
           t == throttled(notices, lastUpdateTime,
                          <<Notice(now, "text", output \o str)>>)
       IN  /\ stdout' = IF stream = "stdout" THEN stdout \o str ELSE stdout
           /\ stderr' = IF stream = "stderr" THEN stderr \o str ELSE stderr
           /\ output' = output \o str
           /\ notices' = t.notices
           /\ lastUpdateTime' = t.lastUpdateTime

\* A second statement that forwards the decoded text whether or not the
\* run streams.
liveNotice_AlwaysText(streaming, text, totalBytes) == Notice(now, "text", text)

\* if (!exited && streamToUi) onOutputChunk(combinedOutput)
\* else if (!exited && !streamToUi) onOutputChunk('[Receiving binary output...
liveNotice(streaming, text, totalBytes) ==
  IF streaming THEN Notice(now, "text", text)
  ELSE Notice(now, "bytes received", totalBytes)

\* One StringDecoder for both streams.
decoderOf_Shared(stream) == "stdout"

\* stream === 'stdout' ? stdoutDecoder : stderrDecoder
decoderOf(stream) == stream

\* handleOutput of executeShellCommand with a chunk of stream: the chunk is
\* pushed to outputChunks; while the run streams and less than
\* MAX_SNIFF_SIZE bytes were sniffed, the first chunks are tested and a
\* binary buffer ends the streaming with a notice; the chunk goes through
\* the decoder of its stream and stripAnsi into the text of the stream;
\* unless exited is set, the combined text or the byte count is passed to
\* the callback, which handleShellCommand throttles.
handleOutput(stream, chunk) ==
  LET allChunks == Append(outputChunks, chunk)
      sniffing == streamToUi /\ sniffedBytes < MAX_SNIFF_SIZE
      sniffBuffer == concat(SubSeq(allChunks, 1,
                                   IF Len(allChunks) < SNIFF_CHUNKS
                                   THEN Len(allChunks) ELSE SNIFF_CHUNKS))
      flagged == sniffing /\ isBinary(sniffBuffer)
      decoded == decoderWrite(decoderRest[decoderOf(stream)], chunk)
      out == IF stream = "stdout" THEN stdout \o stripAnsi(decoded.text) ELSE stdout
      err == IF stream = "stderr" THEN stderr \o stripAnsi(decoded.text) ELSE stderr
      t == throttled(notices, lastUpdateTime,
             (IF flagged THEN <<Notice(now, "binary detected", <<>>)>> ELSE <<>>)
             \o (IF exited THEN <<>>
                 ELSE <<liveNotice(streamToUi /\ ~flagged, combine(out, err),
                                   Len(concat(allChunks)))>>))
  IN  /\ outputChunks' = allChunks
      /\ sniffedBytes' = IF sniffing THEN Len(sniffBuffer) ELSE sniffedBytes
      /\ streamToUi' = (streamToUi /\ ~flagged)
      /\ decoderRest' = [decoderRest EXCEPT ![decoderOf(stream)] = decoded.rest]
      /\ stdout' = out
      /\ stderr' = err
      /\ notices' = t.notices
      /\ lastUpdateTime' = t.lastUpdateTime

\* A 'data' event: the next n bytes of the pipe of stream reach the handler
\* of the executor as one chunk.
DataChunk(stream, n) ==
  /\ executor # "none"
  /\ n <= Len(pipe[stream])
  /\ pipe' = [pipe EXCEPT ![stream] = SubSeq(pipe[stream], n + 1, Len(pipe[stream]))]
  /\ IF executor = ShellToolExecutor
       THEN /\ shellToolData(stream, SubSeq(pipe[stream], 1, n))
            /\ UNCHANGED <<outputChunks, decoderRest, streamToUi, sniffedBytes>>
       ELSE /\ handleOutput(stream, SubSeq(pipe[stream], 1, n))
            /\ UNCHANGED output
  /\ OutFrame
  /\ UNCHANGED <<now, ticks, executor, exited, exitStatus, result, results,
                 written>>

\* Time passes while the process runs.
OutTick(d) ==
  /\ executor # "none"
  /\ ~exited
  /\ ticks < MaxOutTicks
  /\ ticks' = ticks + 1
  /\ now' = now + d
  /\ OutFrame
  /\ UNCHANGED <<executor, exited, exitStatus, stdout, stderr, output, result,
                 results, outVars>>

\* shell.pid of the model, and the line pgrep -g 0 writes for it.
ShellPid == 12
ShellPidLine == <<"1", "2">>

\* Number(line) of a text that is not a number.  It differs from every pid.
NaN == -1

\* /^\d+$/.test(line)
IsDecimal(line) ==
  line # <<>> /\ \A i \in DOMAIN line : line[i] \in {"0", "1", "2", "3", "4", "5", "6", "7", "8", "9"}

\* Number(line) for a line of digits and letters (no sign, blank, point or
\* exponent): its decimal value, or NaN when a letter is in it.
RECURSIVE Number(_)
Number(line) ==
  IF ~IsDecimal(line) THEN NaN
  ELSE LET digit == CHOOSE d \in 0..9 :
                      <<"0", "1", "2", "3", "4", "5", "6", "7", "8", "9">>[d + 1]
                        = line[Len(line)]
       IN  IF Len(line) = 1 THEN digit
           ELSE 10 * Number(SubSeq(line, 1, Len(line) - 1)) + digit

\* The loop over pgrepLines (the non-empty lines of the scratch file): the
\* number of every line that is not shell.pid is pushed, whether or not the
\* line passed the test that logs it.
RECURSIVE backgroundPIDs(_, _)
backgroundPIDs(lines, shellPid) ==
  IF lines = <<>> THEN <<>>
  ELSE LET n == Number(Head(lines))
           rest == backgroundPIDs(Tail(lines), shellPid)
       IN  IF n # shellPid THEN <<n>> \o rest ELSE rest

\* The 'exit' event of a process that ended by itself with the status of
\* the user's command (exit $__code).  ShellTool.execute sets exited and
\* returns the fields of llmContent; executeShellCommand sets exited,
\* flushes the decoders and resolves with the ShellExecutionResult.
ExitOfRun(code) ==
  /\ executor # "none"
  /\ ~exited
  /\ exited' = TRUE
  /\ exitStatus' = Some(ExitStatus(Some(code), None))
  /\ results' = results + 1
  /\ IF executor = ShellToolExecutor
       THEN /\ result' = Some([stdout |-> stdout, stderr |-> stderr,
                               output |-> output, exitCode |-> Some(code),
                               signal |-> None,
                               backgroundPIDs |-> backgroundPIDs(<<ShellPidLine>>, ShellPid)])
            /\ UNCHANGED <<stdout, stderr>>
       ELSE LET out == stdout \o decoderEnd(decoderRest.stdout)
                err == stderr \o decoderEnd(decoderRest.stderr)
            IN  /\ stdout' = out
                /\ stderr' = err
                /\ result' = Some([rawOutput |-> concat(outputChunks),
                                   output |-> combine(out, err),
                                   exitCode |-> Some(code), signal |-> None,
                                   aborted |-> FALSE])
  /\ OutFrame
  /\ UNCHANGED <<now, ticks, executor, output, outVars>>

\* One run of a process that is not cancelled and starts no background
\* process, seen from the output handlers of either executor (the two
\* versions of executeShellCommand share handleOutput).
InitOut ==
  /\ coreTools = {}
  /\ excludeTools = {}
  /\ isWindows = FALSE
  /\ params = NoRequest
  /\ InitSession

NextOut ==
  \/ \E exec \in {ShellToolExecutor, StdinExecutor}, out \in StdoutStreams,
        err \in {<<>>, <<"a">>} :
       StartRun(exec, out, err)
  \/ \E stream \in {"stdout", "stderr"}, n \in 1..MaxChunkLen :
       DataChunk(stream, n)
  \/ \E d \in {1, OUTPUT_UPDATE_INTERVAL_MS} : OutTick(d)
  \/ \E code \in ExitCodes : ExitOfRun(code)

SpecOut == InitOut /\ [][NextOut]_vars

(***************************************************************************)
(* Binary sniffing in executeShellCommand: output of a few more bytes than *)
(* the sniff buffer takes chunks, delivered a byte at a time or all that   *)
(* waits at once.                                                          *)
(***************************************************************************)
\* The streams: SNIFF_CHUNKS + 1 bytes of text, with a NUL byte at the
\* first, the last but one or the last place, or nowhere.
SniffStreams ==
  {[i \in 1..(SNIFF_CHUNKS + 1) |-> IF i = k THEN "NUL" ELSE "a"] :
     k \in {0, 1, SNIFF_CHUNKS, SNIFF_CHUNKS + 1}}

NextSniff ==
  \/ \E out \in SniffStreams, err \in {<<>>, <<"a">>} : StartRun(StdinExecutor, out, err)
  \/ \E stream \in {"stdout", "stderr"} :
       \E n \in {1, Len(pipe[stream])} \ {0} : DataChunk(stream, n)
  \/ ExitOfRun(0)

SpecSniff == InitOut /\ [][NextSniff]_vars

(***************************************************************************)
(* The recovery of the background pids: the trailer of the wrapped command *)
(* writes the scratch file, and ShellTool.execute reads it after the exit. *)
(***************************************************************************)
\* The longest line and the most lines of a scratch file.
MaxLineLen == 2
MaxLines == 2

\* The non-empty lines pgrep can write (2>&1): pids and pieces of an error
\* message.
ScratchLines == UNION {[1..n -> {"1", "2", "x"}] : n \in 1..MaxLineLen}
ScratchFiles == UNION {[1..n -> ScratchLines] : n \in 0..MaxLines}

PidsFrame ==
  UNCHANGED <<configVars, whitelist, cacheVars, now, ticks, params,
              validationError, confirmationDetails, toolResult, shell,
              abortListener, confirmOutcome, ctxVars, schedVars, spawnVars,
              procVars, abortVars, dataVars, results, outVars>>

\* pgrep -g 0 >tempFilePath 2>&1
PgrepWrites(lines) ==
  /\ ~tempFile
  /\ result = None
  /\ tempFile' = TRUE
  /\ pgrepLines' = lines
  /\ op' = "pgrep"
  /\ UNCHANGED result
  /\ PidsFrame

\* After the exit on POSIX: the scratch file is read, the pids are
\* collected and the file is unlinked.
ReadScratchFile ==
  /\ tempFile
  /\ result = None
  /\ result' = Some([backgroundPIDs |-> backgroundPIDs(pgrepLines, ShellPid)])
  /\ tempFile' = FALSE
  /\ op' = "exit"
  /\ UNCHANGED pgrepLines
  /\ PidsFrame

NextPids ==
  \/ \E lines \in ScratchFiles : PgrepWrites(lines)
  \/ ReadScratchFile

SpecPids == InitOut /\ [][NextPids]_vars

(***************************************************************************)
(* Properties of the gate, checked under SpecGate.                         *)
(***************************************************************************)
\* The command text holds  $(  or a backquote.
ContainsSubstitution(c) ==
  \E i \in 1..Len(c) :
    c[i] = Backtick \/ (c[i] = "$" /\ i < Len(c) /\ c[i + 1] = "(")

\* Entry p matches sub-command c at a prefix boundary.
PrefixMatches(c, p) == c = p \/ StartsWith(c, p \o <<" ">>)

\* The arguments of the entries  name(arg)  of the shell tool in a list.
ScopedArgs(tools) ==
  {normalize(e.arg) : e \in {t \in tools : t.tool \in {"ShellTool", "run_shell_command"}
                                           /\ t.scope = "parens"}}

\* The shell tool is listed without a scope in a list.
ListedUnscoped(tools) ==
  \E t \in tools : t.tool \in {"ShellTool", "run_shell_command"} /\ t.scope = "none"

SubCommands(c) == Range(commandsToValidate(c))

SomeSubCommandDenied(c) ==
  \E sub \in SubCommands(c) : \E d \in ScopedArgs(excludeTools) : PrefixMatches(sub, d)

EverySubCommandAllowed(c) ==
  \A sub \in SubCommands(c) : \E a \in ScopedArgs(coreTools) : PrefixMatches(sub, a)

Validated == op = "validateToolParams"

\* C1: a command that contains $( or a backquote is rejected by
\* validateToolParams whatever coreTools and excludeTools hold, and execute
\* returns the rejection without spawning a process.
C1_SubstitutionRejected ==
  ContainsSubstitution(params.command) =>
    /\ (Validated => validationError = ErrNotAllowed)
    /\ (op = "execute" => toolResult = Rejected /\ shell = NoShell)

\* C1 witness: a command with $( whose text prefix-matches an allow entry has
\* been rejected.
C1_Witness ==
  /\ Validated
  /\ params.command = W_git_status \o <<" ", "$", "(", "a", ")">>
  /\ W_git_status \in ScopedArgs(coreTools)
  /\ excludeTools = {}
  /\ validationError = ErrNotAllowed

\* C2: if one sub-command of the command prefix-matches a deny entry scoped
\* to the shell tool, validation rejects the whole command, whatever the
\* other sub-commands and the allow entries (or the wildcard allow) are.
C2_DenyWins ==
  Validated /\ SomeSubCommandDenied(params.command) => validationError = ErrNotAllowed

\* C2 witness: "rm -rf / ; ls" has been rejected under deny entry "rm -rf /"
\* and a wildcard allow.
C2_Witness ==
  /\ Validated
  /\ params.command = W_rm_rf_root \o <<" ", ";", " ">> \o W_ls
  /\ W_rm_rf_root \in ScopedArgs(excludeTools)
  /\ ListedUnscoped(coreTools)
  /\ validationError = ErrNotAllowed

\* The command meets none of the deny rules: no substitution syntax, the tool
\* is not excluded outright and no sub-command matches a deny entry.
FreeOfDeny(c) ==
  /\ ~ContainsSubstitution(c)
  /\ ~ListedUnscoped(excludeTools)
  /\ ~SomeSubCommandDenied(c)

\* C3: with a scoped allow entry and no wildcard, a command that meets none of
\* the deny rules passes the policy check exactly when every sub-command
\* prefix-matches an allow entry; with the wildcard, or without scoped allow
\* entries, such a command always passes the policy check.
C3_StrictAllowList ==
  Validated /\ FreeOfDeny(params.command) =>
    IF ScopedArgs(coreTools) # {} /\ ~ListedUnscoped(coreTools)
    THEN (validationError # ErrNotAllowed) <=> EverySubCommandAllowed(params.command)
    ELSE validationError # ErrNotAllowed

\* C3 witness: "git push" has been rejected under the allow-list {git status}.
C3_Witness ==
  /\ Validated
  /\ params.command = W_git_push
  /\ W_git_status \in ScopedArgs(coreTools)
  /\ ~ListedUnscoped(coreTools)
  /\ FreeOfDeny(params.command)
  /\ validationError = ErrNotAllowed

\* C4: when the shell tool is listed in excludeTools without a scope, every
\* command is rejected, whatever coreTools holds.
C4_ExcludedOutright ==
  Validated /\ ListedUnscoped(excludeTools) => validationError = ErrNotAllowed

\* C4 witness: "ls" has been rejected under an outright exclusion although
\* coreTools holds the wildcard.
C4_Witness ==
  /\ Validated
  /\ params.command = W_ls
  /\ ListedUnscoped(excludeTools)
  /\ ListedUnscoped(coreTools)
  /\ validationError = ErrNotAllowed

\* The text of a command once the grouping punctuation is stripped and the
\* leading blanks are skipped.
Stripped(c) == TrimStart(RemoveChars(c, GroupingChars))

FirstToken(c) == FirstPiece(Stripped(c), RootSeparators)

\* C5 (as claimed): for every command whose first non-blank character, after
\* the grouping punctuation is stripped, is not a separator and whose first
\* token does not end in a path separator, getCommandRoot is not empty.
C5_RootNonEmpty ==
  /\ Validated
  /\ Stripped(params.command) # <<>>
  /\ Head(Stripped(params.command)) \notin {";", "&", "|"}
  /\ FirstToken(params.command)[Len(FirstToken(params.command))] \notin PathSeparators
  => getCommandRoot(params.command) # <<>>

(***************************************************************************)
(* Properties of the confirmation step, checked under Spec.                *)
(***************************************************************************)
Confirmed == op = "shouldConfirmExecute"

Valid(p) == validateToolParams(p, coreTools, excludeTools) = Null

\* The command is an elevation request on a platform that supports it.
IsElevation(c) == ~isWindows /\ StartsWith(Trim(c), <<"s", "u", "d", "o", " ">>)

\* The cache holds a non-empty secret younger than 15 minutes.
SecretValid ==
  /\ sudoPassword # None
  /\ sudoPassword[1] # <<>>
  /\ sudoPasswordTimestamp # None
  /\ now - sudoPasswordTimestamp[1] < 15 * 60 * 1000

NeedsPassword(c) == IsElevation(c) /\ ~SecretValid

\* The first token of the command carries a directory path, and the command
\* begins with that token.
HasDirPath(c) ==
  /\ c # <<>>
  /\ Head(c) \notin RootSeparators \cup GroupingChars
  /\ \E i \in 1..Len(FirstPiece(c, RootSeparators)) : c[i] \in PathSeparators
  /\ LastPiece(FirstPiece(c, RootSeparators), PathSeparators) # <<>>

\* The same command with the directory path of its first token removed.
PlainOf(c) ==
  LET token == FirstPiece(c, RootSeparators)
  IN  LastPiece(token, PathSeparators) \o SubSeq(c, Len(token) + 1, Len(c))

\* Commands whose first token carries a directory path.
PathCommands ==
  { W_bin_ls,
    <<"/", "b", "i", "n", "/">> \o W_sudo_ls,
    <<".", "/">> \o W_ls_rm,
    <<"C", ":", "\\", "b", "i", "n", "\\">> \o W_ls \o <<"\t", "a">>,
    <<"a", "/">> \o W_ls_subst }

C7_InvalidRejected ==
  [][ /\ (op' = "shouldConfirmExecute"
           /\ validateToolParams(params', coreTools, excludeTools) # Null
            => /\ confirmationDetails' = NoConfirmation
               /\ whitelist' = whitelist
               /\ sudoPassword' = sudoPassword
               /\ sudoPasswordTimestamp' = sudoPasswordTimestamp)
      /\ (op' = "execute"
           /\ validateToolParams(params', coreTools, excludeTools) # Null
            => /\ toolResult' = Rejected
               /\ shell' = shell /\ shell # Running
               /\ tempFile' = tempFile /\ ~tempFile
               /\ abortListener' = abortListener /\ ~abortListener
               /\ whitelist' = whitelist
               /\ sudoPassword' = sudoPassword
               /\ sudoPasswordTimestamp' = sudoPasswordTimestamp) ]_vars

\* C7 witness: an elevation request that fails validation has gone through
\* the confirmation step with no valid secret cached, and no confirmation
\* was returned.
C7_Witness ==
  /\ Confirmed
  /\ IsElevation(params.command)
  /\ ~Valid(params)
  /\ ~SecretValid
  /\ confirmationDetails = NoConfirmation

\* C8: for a valid elevation request, shouldConfirmExecute returns a Password
\* confirmation exactly when the cache holds no secret, an empty secret or a
\* secret aged 15 minutes or more.
C8_PasswordPromptIffNotCached ==
  Confirmed /\ IsElevation(params.command) /\ Valid(params) =>
    ((confirmationDetails.type = "password") <=> ~SecretValid)

\* C8 witness: a non-empty secret aged exactly 15 minutes did not suppress
\* the Password confirmation.
C8_Witness ==
  /\ Confirmed
  /\ IsElevation(params.command)
  /\ Valid(params)
  /\ sudoPassword # None /\ sudoPassword[1] # <<>>
  /\ now - sudoPasswordTimestamp[1] = 15 * 60 * 1000
  /\ confirmationDetails.type = "password"

\* C9 (as claimed): for a valid elevation request with a still-valid secret,
\* shouldConfirmExecute returns no confirmation at all, whether or not sudo
\* is in the whitelist.
C9_CachedSkipsEveryPrompt ==
  Confirmed /\ IsElevation(params.command) /\ Valid(params) /\ SecretValid =>
    confirmationDetails = NoConfirmation

\* C9 (amended): for a valid elevation request with a still-valid secret,
\* shouldConfirmExecute returns no Password confirmation; it returns no
\* confirmation at all if sudo is in the whitelist and an Exec confirmation
\* for the root command sudo otherwise.
C9_CachedSkipsPasswordPrompt ==
  Confirmed /\ IsElevation(params.command) /\ Valid(params) /\ SecretValid =>
    IF <<"s", "u", "d", "o">> \in whitelist
    THEN confirmationDetails = NoConfirmation
    ELSE confirmationDetails = Details("exec", params.command, <<"s", "u", "d", "o">>)

\* C9 witness: an elevation request with a valid secret and sudo in the
\* whitelist went through the confirmation step without a prompt.
C9_Witness ==
  /\ Confirmed
  /\ IsElevation(params.command)
  /\ Valid(params)
  /\ SecretValid
  /\ <<"s", "u", "d", "o">> \in whitelist
  /\ confirmationDetails = NoConfirmation

\* C10: for a valid request that needs no Password confirmation,
\* shouldConfirmExecute returns no confirmation if the root command is in the
\* whitelist, and otherwise an Exec confirmation carrying the root command
\* and the full command text.
C10_WhitelistDecides ==
  Confirmed /\ Valid(params) /\ ~NeedsPassword(params.command) =>
    IF getCommandRoot(params.command) \in whitelist
    THEN confirmationDetails = NoConfirmation
    ELSE confirmationDetails
           = Details("exec", params.command, getCommandRoot(params.command))

\* C10 witness: with ls in the whitelist, the chained command
\* "ls ; rm -rf /" went through the confirmation step without a prompt.
C10_Witness ==
  /\ Confirmed
  /\ params.command = W_ls_rm
  /\ Valid(params)
  /\ W_ls \in whitelist
  /\ confirmationDetails = NoConfirmation

(***************************************************************************)
(* Properties of the whitelist, checked under Spec.                        *)
(***************************************************************************)
\* C11: the whitelist is empty at the start and a step changes it only when
\* it resolves an exec confirmation with ProceedAlways, and then by inserting
\* exactly the root command of that confirmation; every other step
\* (ProceedOnce, Cancel, the password resolution, shouldConfirmExecute,
\* execute, the exit of the process, the clock) leaves it as it was.
C11_WhitelistGrowsOnlyByAlways ==
  /\ whitelist = {}
  /\ [][IF op' = "onConfirmExec" /\ confirmOutcome' = ProceedAlways
          THEN /\ confirmationDetails.type = "exec"
               /\ whitelist' = whitelist \cup {confirmationDetails.rootCommand}
          ELSE whitelist' = whitelist]_vars

\* C11 witness: ProceedAlways on the confirmation of "/bin/ls" has put the
\* root command ls, and nothing else, into the whitelist.
C11_Witness ==
  /\ op = "onConfirmExec"
  /\ confirmOutcome = ProceedAlways
  /\ whitelist = {W_ls}

ValidSecret(password, timestamp) ==
  /\ password # None
  /\ password[1] # <<>>
  /\ timestamp # None
  /\ now - timestamp[1] < 15 * 60 * 1000

\* The step calls an executor for a sudo command on POSIX; for
\* ShellTool.execute, the request is valid and the signal is not aborted yet.
ElevationCall ==
  /\ executor = "none"
  /\ executor' # "none"
  /\ ~isWindows
  /\ StartsWith(Trim(request'.command), <<"s", "u", "d", "o", " ">>)
  /\ executor' = ShellToolExecutor =>
       /\ validateToolParams(request', coreTools, excludeTools) = Null
       /\ ~signalAborted

\* C13: a call of either executor for an elevation request spawns a process
\* only when the secret it reads (the ShellTool cache in ShellTool.execute,
\* getPassword of the SudoProvider on the user-shell path) is valid at that
\* moment, and then the process is given exactly that secret; when the secret
\* is absent, empty or 15 minutes old, the call returns the result 'sudo
\* password required' at once and spawns nothing.
C13_ElevationNeedsValidSecret ==
  [][ElevationCall =>
       IF executor' = ShellToolExecutor
       THEN IF ValidSecret(sudoPassword, sudoPasswordTimestamp)
            THEN /\ shell' \in {Running, SpawnFailed}
                 /\ Includes(argv', <<"echo '">> \o sudoPassword[1] \o <<"' | ">>)
            ELSE /\ shell' = NoShell /\ argv' = <<>> /\ ~pid'
                 /\ result' # None /\ result'[1].kind = "sudo rejected"
       ELSE IF ValidSecret(ctxPassword, ctxTimestamp)
            THEN /\ shell' \in {Running, SpawnFailed}
                 /\ \/ stdinData' = ctxPassword[1] \o <<"\n">>
                    \/ Includes(argv', <<"echo '">> \o ctxPassword[1] \o <<"' | ">>)
            ELSE /\ shell' = NoShell /\ argv' = <<>> /\ ~pid'
                 /\ result' # None /\ result'[1].error = Some(ErrSudoRequired)
                 /\ result'[1].exitCode = Some(1)]_vars

\* C13 witness: ShellTool.execute has turned down "sudo ls" because the
\* password in its cache had expired, and nothing was spawned.
C13_Witness ==
  /\ executor = ShellToolExecutor
  /\ request.command = W_sudo_ls
  /\ sudoPassword = Some(<<"p", "w">>)
  /\ ~ValidSecret(sudoPassword, sudoPasswordTimestamp)
  /\ result # None /\ result[1].kind = "sudo rejected"
  /\ shell = NoShell

\* C14: in every elevation run the secret reaches the process on its standard
\* input only: whatever non-empty secret the caches hold or held, it is not
\* part of the command string handed to spawn, of a debug message, or of the
\* error text of the run.
C14_SecretOnlyOnStdin ==
  \A secret \in Passwords \ {<<>>} :
    /\ ~Includes(argv, secret)
    /\ \A message \in debugMessages : ~Includes(message, secret)
    /\ error # None => ~Includes(error[1], secret)
    /\ (result # None /\ result[1].error # None) => ~Includes(result[1].error[1], secret)

\* C15: once a run has delivered its result and its captured stdout or stderr
\* holds an elevation-failure phrase, every fetch of the cached secret returns
\* absent: the cache of the tool (read by the confirmation step and by
\* ShellTool.execute) is not valid and SudoContext.getPassword returns
\* nothing, whatever the age of the entry.
C15_FailurePhraseInvalidates ==
  (result # None /\ (hasSudoFailure(stdout) \/ hasSudoFailure(stderr))) =>
    /\ ~isPasswordCached
    /\ getPassword = None

\* The cancellation trigger has fired while abortHandler was registered on a
\* process that was started.
CancelledAfterStart == pid /\ abortPc # "idle"

\* C16: when the cancellation trigger fires after the process was started
\* and before the result, the executor eventually delivers a result, marked
\* aborted, whose output is the output captured up to that point.
C16_CancelResolvesAborted ==
  (CancelledAfterStart /\ result = None) ~>
    /\ result # None
    /\ result[1].aborted
    /\ result[1].output = IF executor = ShellToolExecutor
                          THEN output ELSE combinedOutput

\* A cancelled run that had delivered output has returned its result.
C16_Witness ==
  /\ CancelledAfterStart
  /\ result # None
  /\ result[1].aborted
  /\ result[1].output = Hello
  /\ Delivered("SIGKILL")

\* C17: on POSIX, cancelling a run whose exit has not been seen sends SIGTERM
\* to the process group first; SIGKILL to the group is sent only when the
\* grace window ends with the exit still unseen, and then it is sent; no
\* SIGKILL precedes the SIGTERM; a group signal that fails is followed at
\* once by SIGKILL to the direct child, which is sent in no other case.
C17_TermThenKill ==
  /\ [](~isWindows =>
         \A i \in DOMAIN signals :
           /\ signals[i].signal \in {"SIGTERM", "SIGKILL"}
           /\ (signals[i].signal = "SIGTERM") = (i = 1)
           /\ i = 1 => signals[i].target = "group"
           /\ (signals[i].target = "group" /\ ~signals[i].ok) =>
                 /\ i < Len(signals)
                 /\ signals[i + 1] = Signal("SIGKILL", "child", TRUE)
           /\ signals[i].target = "child" =>
                 /\ i > 1
                 /\ signals[i - 1].target = "group"
                 /\ ~signals[i - 1].ok)
  /\ [][~isWindows =>
          /\ (~signalAborted /\ signalAborted' /\ abortListener /\ pid /\ ~exited) =>
                /\ signals = <<>>
                /\ signals' # <<>>
                /\ abortPc' = IF signals'[1].ok THEN "grace" ELSE "done"
          /\ (signals # <<>> /\ signals' # signals) =>
                /\ abortPc = "grace"
                /\ ~exited
                /\ signals[1] = Signal("SIGTERM", "group", TRUE)
                /\ Len(signals) = 1
                /\ signals'[2].signal = "SIGKILL"
                /\ signals'[2].target = "group"
          /\ (abortPc = "grace" /\ abortPc' # "grace") =>
                (signals' = signals) = exited]_vars

\* The group took SIGTERM, the SIGKILL to the group at the end of the grace
\* window failed, and the direct child was killed.
C17_Witness ==
  /\ ~isWindows
  /\ signals = <<Signal("SIGTERM", "group", TRUE),
                 Signal("SIGKILL", "group", FALSE),
                 Signal("SIGKILL", "child", TRUE)>>

\* C18: for  sleep 5 &  run by ShellTool.execute on POSIX, firing the
\* cancellation trigger while the background job is alive yields the aborted
\* result without exit code or signal and leaves no process of the group
\* alive: at that moment the run has not returned another result, the
\* handler signals the process group, and the aborted result carries no exit
\* information.
C18_CancelEndsBackgroundJob ==
  /\ []((executor = ShellToolExecutor /\ result # None /\ result[1].aborted) =>
          /\ result[1].exitCode = None
          /\ result[1].signal = None)
  /\ [][(/\ executor = ShellToolExecutor
          /\ ~isWindows
          /\ request.command = W_sleep_bg
          /\ job = "alive"
          /\ ~signalAborted
          /\ signalAborted') =>
            /\ result = None
            /\ signals' # <<>>]_vars

\* C19: an invocation never produces a second result, and it eventually
\* produces one once its process has ended or the system has failed to
\* create the process; in the latter case the result carries the error.
C19_ExactlyOneResult ==
  /\ [](results <= 1)
  /\ (shell = Terminated) ~> (results = 1)
  /\ (shell = SpawnFailed) ~> (results = 1 /\ result[1].error # None)

\* C20: once an invocation has returned its result, the scratch file of the
\* run (the pgrep file of ShellTool.execute, the pwd file of
\* executeShellCommand) does not exist, whether the run ended by itself, was
\* cancelled, or returned before it named the file.
C20_ScratchFileRemoved == result # None => ~tempFile

\* A cancelled run has returned after the trailer had written the scratch
\* file.
C20_Witness ==
  /\ ~isWindows
  /\ result # None
  /\ result[1].aborted
  /\ exitStatus # None
  /\ exitStatus[1].code = Some(0)
  /\ ~tempFile

(***************************************************************************)
(* Properties of the output handlers, checked under SpecOut.               *)
(***************************************************************************)
\* C21: a run of ShellTool.execute that ends by itself, is not cancelled and
\* starts no background process reports the exit status of the user's
\* command, no signal, the text the command wrote on stdout and on stderr,
\* and no background pid.
C21_CompletedRunReported ==
  (executor = ShellToolExecutor /\ result # None) =>
    /\ result[1].exitCode = exitStatus[1].code
    /\ result[1].signal = None
    /\ result[1].stdout = stripAnsi(toString(written.stdout))
    /\ result[1].stderr = stripAnsi(toString(written.stderr))
    /\ result[1].backgroundPIDs = <<>>

\* C22: in executeShellCommand a run that was flagged binary stays flagged,
\* and every live update delivered in or after the step that flagged it is
\* the binary notice or a byte count, never decoded text.
C22_BinaryIsOneWay ==
  [][/\ ~streamToUi => ~streamToUi'
     /\ ~streamToUi' =>
          \A i \in (Len(notices) + 1)..Len(notices') :
            notices'[i].kind \in {"binary detected", "bytes received"}]_vars

\* Text bytes arrived after the run was flagged, and the byte count of all
\* three bytes was delivered.
C22_Witness ==
  /\ ~streamToUi
  /\ written.stdout = <<"NUL", "a", "a">>
  /\ pipe.stdout = <<>>
  /\ notices # <<>>
  /\ notices[Len(notices)] = Notice(now, "bytes received", 3)

\* C23: the raw byte buffer of the result of executeShellCommand is the
\* concatenation, in order of arrival, of every chunk handleOutput received,
\* and it holds every byte the process wrote on stdout and stderr.
C23_RawBufferComplete ==
  (executor = StdinExecutor /\ result # None) =>
    /\ result[1].rawOutput = concat(outputChunks)
    /\ Len(result[1].rawOutput) = Len(written.stdout) + Len(written.stderr)

\* C24: any two consecutive live updates delivered within one invocation,
\* by either executor, are more than OUTPUT_UPDATE_INTERVAL_MS apart.
C24_UpdatesThrottled ==
  \A i \in 2..Len(notices) :
    notices[i].time - notices[i - 1].time > OUTPUT_UPDATE_INTERVAL_MS

\* Two updates were delivered one millisecond more than the interval apart.
C24_Witness ==
  /\ Len(notices) = 2
  /\ notices[2].time - notices[1].time = OUTPUT_UPDATE_INTERVAL_MS + 1

\* C25: the result holds the complete text: what the process wrote on stdout
\* and on stderr, decoded and stripped, is the Stdout and Stderr of the
\* result of ShellTool.execute and the output of the result of
\* executeShellCommand, whenever the exit event came relative to the data
\* events and whatever the throttle let through.
C25_ResultHasCompleteText ==
  result # None =>
    LET out == stripAnsi(toString(written.stdout))
        err == stripAnsi(toString(written.stderr))
    IN  IF executor = ShellToolExecutor
          THEN result[1].stdout = out /\ result[1].stderr = err
          ELSE result[1].output = combine(out, err)

\* C26: the accumulated text does not depend on the chunk boundaries: once
\* every byte of a run has been delivered, with the process still running,
\* the accumulated stdout and stderr of either executor are the whole byte
\* sequence of the stream decoded and stripped at once.
C26_ChunkingIndependent ==
  (executor # "none" /\ ~exited /\ pipe.stdout = <<>> /\ pipe.stderr = <<>>) =>
    /\ stdout = stripAnsi(toString(written.stdout))
    /\ stderr = stripAnsi(toString(written.stderr))

(***************************************************************************)
(* Further properties of the gate, checked under SpecGate.                 *)
(***************************************************************************)
\* C27: validateToolParams returns an error for every request whose command
\* is empty once trimmed, whose command yields no root (nothing is left once
\* the grouping punctuation is stripped, the first character left is one of
\* ; & |, or the first token ends in a path separator), or whose directory
\* is given and is absolute or does not exist; and a request for which
\* shouldConfirmExecute returns a confirmation or execute spawns a process
\* has a root command that is not empty.
C27_ValidationRejectsRootless ==
  LET c == params.command
      d == params.directory
      noRoot == \/ Stripped(c) = <<>>
                \/ Head(Stripped(c)) \in {";", "&", "|"}
                \/ FirstToken(c)[Len(FirstToken(c))] \in PathSeparators
  IN  /\ (Validated /\ (Trim(c) = <<>> \/ noRoot))
           => validationError \in {ErrNotAllowed, ErrEmpty, ErrNoRoot}
      /\ (Validated /\ d # <<>> /\ (Head(d) = "/" \/ d \notin ExistingDirs))
           => validationError # Null
      /\ (op = "shouldConfirmExecute" /\ confirmationDetails # NoConfirmation)
           => getCommandRoot(c) # <<>>
      /\ (op = "execute" /\ shell = Running) => getCommandRoot(c) # <<>>

\* The command  ;a  went through validation under a policy that allows
\* every command, and was rejected for its missing root.
C27_Witness ==
  /\ Validated
  /\ params.command = <<";", "a">>
  /\ validationError = ErrNoRoot

\* C28: the credential cache keeps its contract in every step.  A Set leaves
\* the secret with the time of the Set, whether or not an entry was there,
\* and the secret is readable from then on exactly when it is not empty; an
\* executor called for an elevation request (a Get) starts a process exactly
\* when the entry it reads is less than 15 minutes old; an entry disappears
\* only when it has expired or when a failure phrase clears it; after a Clear
\* or a Set of the empty secret (an entry that was valid is not valid any
\* more although no time has passed) no Get returns the secret; and there is
\* one entry: the secrets held for the tool and for the user shell are the
\* same.
C28_CacheContract ==
  [][/\ \A store \in {<<sudoPassword', sudoPasswordTimestamp', sudoPassword>>,
                      <<ctxPassword', ctxTimestamp', ctxPassword>>} :
          (store[1] # None /\ (store[1] # store[3] \/ (userInput # "submit" /\ userInput' = "submit"))) =>
            /\ store[2] = Some(now)
            /\ (ValidSecret(store[1], store[2]) <=> (store[1][1] # <<>>))
     /\ ElevationCall =>
          ((shell' # NoShell) <=>
             IF executor' = ShellToolExecutor
             THEN ValidSecret(sudoPassword, sudoPasswordTimestamp)
             ELSE ValidSecret(ctxPassword, ctxTimestamp))
     /\ (sudoPassword # None /\ sudoPassword' = None) =>
          \/ ~ValidSecret(sudoPassword, sudoPasswordTimestamp)
          \/ hasSudoFailure(stdout') \/ hasSudoFailure(stderr')
     /\ (ctxPassword # None /\ ctxPassword' = None) =>
          ~ValidSecret(ctxPassword, ctxTimestamp)
     /\ ( /\ now' = now
          /\ \/ /\ ValidSecret(sudoPassword, sudoPasswordTimestamp)
                /\ ~ValidSecret(sudoPassword', sudoPasswordTimestamp')
             \/ /\ ValidSecret(ctxPassword, ctxTimestamp)
                /\ ~ValidSecret(ctxPassword', ctxTimestamp') ) =>
          /\ ~ValidSecret(sudoPassword', sudoPasswordTimestamp')
          /\ ~ValidSecret(ctxPassword', ctxTimestamp')
     /\ (sudoPassword' # None /\ ctxPassword' # None /\ ctxPassword'[1] # <<>>) =>
          sudoPassword' = ctxPassword']_vars

\* C29: matching respects the prefix boundary, for deny and for allow entries
\* alike.  isPrefixedBy holds of a sub-command and an entry exactly when the
\* sub-command is the entry or begins with the entry followed by a space, and
\* the verdict of validateToolParams is the one this rule gives: a command
\* without substitution syntax, with the tool not excluded outright, fails the
\* policy check exactly when a sub-command matches a deny entry in that sense
\* or, under a strict allow-list, some sub-command matches no allow entry in
\* that sense.  A sub-command that only continues the last word of an entry
\* is neither denied nor allowed by it.
C29_PrefixBoundary ==
  LET c == params.command
      strict == ScopedArgs(coreTools) # {} /\ ~ListedUnscoped(coreTools)
  IN  /\ \A sub \in SubCommands(c) : \A p \in ScopedArgs(coreTools \cup excludeTools) :
           isPrefixedBy(sub, p) <=> PrefixMatches(sub, p)
      /\ (Validated /\ ~ContainsSubstitution(c) /\ ~ListedUnscoped(excludeTools)) =>
           ((validationError = ErrNotAllowed) <=>
              (SomeSubCommandDenied(c) \/ (strict /\ ~EverySubCommandAllowed(c))))

\* C29 witness: "rm -rf /home" has passed validation under the deny entry
\* "rm -rf /", whose last word it continues.
C29_Witness ==
  /\ Validated
  /\ params.command = W_rm_rf_root \o <<"h", "o", "m", "e">>
  /\ W_rm_rf_root \in ScopedArgs(excludeTools)
  /\ validationError = Null

(***************************************************************************)
(* Further properties of the confirmation step, checked under Spec.        *)
(***************************************************************************)
\* C30: for a valid elevation request with no valid cached secret,
\* shouldConfirmExecute returns a Password confirmation even when sudo is in
\* the whitelist; resolving a Password confirmation with a non-empty secret
\* stores that secret with the current time; and while the stored secret is
\* not empty and less than 15 minutes have passed since, shouldConfirmExecute
\* returns no Password confirmation for an elevation request and execute
\* does not return 'password required' for it.
C30_PasswordPromptThenCached ==
  /\ []((Confirmed /\ IsElevation(params.command) /\ Valid(params)
           /\ ~SecretValid /\ <<"s", "u", "d", "o">> \in whitelist)
          => confirmationDetails.type = "password")
  /\ [][/\ op' = "onConfirmPassword" =>
             /\ confirmationDetails.type = "password"
             /\ sudoPassword' # None
             /\ sudoPasswordTimestamp' = Some(now)
        /\ (SecretValid /\ op' = "shouldConfirmExecute" /\ IsElevation(params'.command)) =>
             confirmationDetails'.type # "password"
        /\ (SecretValid /\ op' = "execute" /\ IsElevation(params'.command)) =>
             toolResult' # SudoRejected]_vars

\* C30 witness: the Password confirmation returned for an elevation request
\* while sudo was in the whitelist (the secret that let sudo be confirmed had
\* expired) has just been resolved with "pw", stored with the current time.
C30_Witness ==
  /\ op = "onConfirmPassword"
  /\ <<"s", "u", "d", "o">> \in whitelist
  /\ sudoPassword = Some(<<"p", "w">>)
  /\ sudoPasswordTimestamp = Some(now)
  /\ now = StartTime + SUDO_CACHE_DURATION_MS

(***************************************************************************)
(* Further properties of one invocation, checked under SpecExec.           *)
(***************************************************************************)
\* C31: when ShellTool.execute returns its result and the text it received
\* on stdout, or on stderr, before the exit holds an elevation-failure
\* phrase, the cache of the tool is invalid, also when the phrase came in two
\* consecutive chunks.
C31_WatchIgnoresChunkBoundaries ==
  (executor = ShellToolExecutor /\ result # None
     /\ (hasSudoFailure(stdout) \/ hasSudoFailure(stderr))) =>
    ~isPasswordCached

(***************************************************************************)
(* Properties of the recovery of the background pids, checked under        *)
(* SpecPids.                                                               *)
(***************************************************************************)
\* C32: the background-PID list of a result holds exactly the pids read from
\* the scratch file, the shell's own left out: its elements are the numbers
\* of the decimal lines other than the shell's pid, in order, so every
\* element is a pid and a line that is not a decimal number adds none.
C32_BackgroundPidsAreDecimalLines ==
  (op = "exit" /\ result # None) =>
    LET decimal(line) == \A i \in DOMAIN line : line[i] \in {"1", "2"}
        pids == SelectSeq(pgrepLines, LAMBDA line : decimal(line) /\ line # ShellPidLine)
    IN  /\ Len(result[1].backgroundPIDs) = Len(pids)
        /\ \A i \in DOMAIN result[1].backgroundPIDs :
             /\ result[1].backgroundPIDs[i] \in Nat \ {0, ShellPid}
             /\ result[1].backgroundPIDs[i] = Number(pids[i])

(***************************************************************************)
(* Properties of binary sniffing, checked under SpecSniff.                 *)
(***************************************************************************)
\* C33: whatever the chunking, the run is flagged binary as soon as the
\* bytes handled so far on stdout and stderr together hold a NUL byte among
\* their first 4096, and it is not flagged when they hold none there, however
\* many chunks they came in.
C33_SniffCoversFirst4K ==
  LET received == concat(outputChunks)
      sniffed == SubSeq(received, 1, IF Len(received) < MAX_SNIFF_SIZE
                                     THEN Len(received) ELSE MAX_SNIFF_SIZE)
  IN  executor = StdinExecutor =>
        (~streamToUi <=> \E i \in DOMAIN sniffed : sniffed[i] = "NUL")

(***************************************************************************)
(* Further properties of the output handlers, checked under SpecOut.       *)
(***************************************************************************)
\* C34: the text of a stream is made of the chunks of that stream alone, in
\* their order.  A data event handled before the exit appends the text of
\* its chunk (decoded by itself in ShellTool.execute, by the decoder of its
\* stream in executeShellCommand, and stripped) to the text of its stream and
\* leaves the text and the decoder of the other stream as they were; the
\* result made at the exit carries the two texts, so no interleaving of the
\* data events of stdout and stderr changes them.
C34_PerStreamDeterminism ==
  [][\A s \in {"stdout", "stderr"} :
       LET other == IF s = "stdout" THEN "stderr" ELSE "stdout"
           text == [stdout |-> stdout, stderr |-> stderr]
           textAfter == [stdout |-> stdout', stderr |-> stderr']
           chunk == SubSeq(pipe[s], 1, Len(pipe[s]) - Len(pipe'[s]))
       IN  /\ (pipe'[s] # pipe[s] /\ executor # "none" /\ ~exited) =>
                /\ textAfter[s] = text[s] \o
                     (IF executor = ShellToolExecutor
                      THEN stripAnsi(toString(chunk))
                      ELSE stripAnsi(decoderWrite(decoderRest[s], chunk).text))
                /\ textAfter[other] = text[other]
                /\ decoderRest'[other] = decoderRest[other]
           /\ (s = "stdout" /\ ~exited /\ exited') =>
                IF executor = ShellToolExecutor
                THEN result'[1].stdout = stdout /\ result'[1].stderr = stderr
                ELSE result'[1].output
                       = combine(stdout \o decoderEnd(decoderRest.stdout),
                                 stderr \o decoderEnd(decoderRest.stderr))]_vars

\* C34 witness: executeShellCommand has received half a character on stdout,
\* then a chunk on stderr, then the other half on stdout, and its result
\* holds the character whole.
C34_Witness ==
  /\ executor = StdinExecutor
  /\ outputChunks = << <<"a", "C3">>, <<"a">>, <<"A9">> >>
  /\ result # None
  /\ result[1].output = combine(<<"a", "E9">>, <<"a">>)

(***************************************************************************)
(* Further properties of one invocation, checked under SpecExec.           *)
(***************************************************************************)
\* C35: abortHandler is registered on the abort signal only around the
\* lifetime of the process.  It is registered in the step that spawns and in
\* no other, it is registered only while a spawned process has not been seen
\* to exit, a step takes it off only when it observes the exit or when the
\* signal fires, and once the invocation has returned its result, by
\* whatever path, it is not registered.
C35_ListenerAroundProcess ==
  /\ [](result # None => ~abortListener)
  /\ [](abortListener => (argv # <<>> /\ ~exited))
  /\ [][/\ (~abortListener /\ abortListener') =>
             (argv = <<>> /\ argv' # <<>> /\ shell' \in {Running, SpawnFailed})
        /\ (abortListener /\ ~abortListener') =>
             ((~exited /\ exited') \/ (~signalAborted /\ signalAborted'))]_vars

\* C35 witness: a process that was not cancelled has been seen to exit; the
\* result is returned and the listener registered at its spawn is gone.
C35_Witness ==
  /\ shell = Exited
  /\ pid
  /\ ~signalAborted
  /\ result # None
  /\ ~abortListener

\* C36: no signal is sent once the executor has observed the exit of the
\* process.  A step taken with exited set leaves the signals sent so far as
\* they are: the cancellation that fires after the exit sends nothing, and
\* the timer of a grace window that was pending at the exit fires without
\* SIGKILL.
C36_NoSignalAfterExit ==
  [][exited => signals' = signals]_vars

\* C36 witness: the process was seen to exit during the grace window, the
\* timer has fired, and SIGTERM is the only signal that was sent.
C36_Witness ==
  /\ ~isWindows
  /\ exited
  /\ signalAborted
  /\ abortPc = "done"
  /\ signals = <<Signal("SIGTERM", "group", TRUE)>>

(***************************************************************************)
(* Further properties of the output handlers, checked under SpecOut.       *)
(***************************************************************************)
\* C37: no live update is delivered after the executor has observed the exit
\* of the process: a step taken with exited set, a late data event included,
\* adds nothing to the updates delivered so far.
C37_NoLiveUpdateAfterExit ==
  [][exited => notices' = notices]_vars

(***************************************************************************)
(* Further properties of one invocation, checked under SpecExec.           *)
(***************************************************************************)
\* C38: an executor called with the cancellation trigger already fired (for
\* ShellTool.execute, with a request that passes validation) spawns nothing
\* and returns a cancelled result in the same step; and a result marked
\* aborted that belongs to a started process belongs to one that was sent a
\* signal.
C38_PreAbortedNeverSpawns ==
  /\ [][(executor = "none" /\ executor' # "none" /\ signalAborted'
           /\ (executor' = ShellToolExecutor =>
                 validateToolParams(request', coreTools, excludeTools) = Null)) =>
          /\ shell' = NoShell
          /\ ~pid'
          /\ argv' = <<>>
          /\ result' # None
          /\ result'[1].aborted]_vars
  /\ []((result # None /\ result[1].aborted /\ pid) => signals # <<>>)

(***************************************************************************)
(* Properties of invocations that share the cache, checked under           *)
(* SpecShared.                                                             *)
(***************************************************************************)
\* C39: the output of a run invalidates only the secret the run was started
\* with.  While the cache of the tool holds a valid secret that is not the
\* one handed to the running process (it was stored by a Password resolution
\* after the run started), a step of that run leaves the secret in the cache
\* with its time.
C39_RunClearsOnlyItsOwnSecret ==
  [][(/\ executor = ShellToolExecutor
      /\ shell \in {Running, Terminated}
      /\ ValidSecret(sudoPassword, sudoPasswordTimestamp)
      /\ ~Includes(argv, <<"echo '">> \o sudoPassword[1] \o <<"' | ">>))
       => (sudoPassword' # None /\ sudoPasswordTimestamp' # None)]_vars

(***************************************************************************)
(* Further properties of the gate, checked under SpecGate.                 *)
(***************************************************************************)
\* C40: the policy check covers every command the shell would run from an
\* accepted text.  When validation accepts a command, none of its segments
\* between shell command separators (&&, ||, |, ;, a single & and the
\* newline) matches a deny entry at a prefix boundary, and under a strict
\* allow-list every such segment matches an allow entry.
C40_EverySegmentGated ==
  LET c == params.command
      sep(i) == c[i] \in {"&", "|", ";", "\n"}
      segments ==
        {normalize(SubSeq(c, i, j)) : <<i, j>> \in
           {<<i, j>> \in (1..Len(c)) \X (1..Len(c)) :
              /\ i <= j
              /\ \A k \in i..j : ~sep(k)
              /\ (i = 1 \/ sep(i - 1))
              /\ (j = Len(c) \/ sep(j + 1))}} \ {<<>>}
  IN  (Validated /\ validationError = Null) =>
        \A seg \in segments :
          /\ \A d \in ScopedArgs(excludeTools) : ~PrefixMatches(seg, d)
          /\ (ScopedArgs(coreTools) # {} /\ ~ListedUnscoped(coreTools)) =>
               \E a \in ScopedArgs(coreTools) : PrefixMatches(seg, a)

====
